---- MODULE Spec2Model ----
(***************************************************************************)
(* A model of the EventSub verification pipeline of twitch-eventsub-rs:    *)
(* header validation (eventsub-common/src/headers.rs), HMAC set-up and the *)
(* poll-driven future VerifyDecodeFut (actix-web-eventsub/src/extractors/  *)
(* eventsub.rs), and the replay guard of the redis example.                *)
(*                                                                         *)
(* Representation.  A byte is a string: a one-character string for an      *)
(* ASCII byte, "00" for the NUL byte and "FF" for a byte that is not       *)
(* ASCII.  A byte string that is only compared, parsed or hashed piece by  *)
(* piece (header values) is a sequence of bytes.  A byte string that can   *)
(* be ten million bytes long (the body, the MAC input) is kept run-length  *)
(* encoded: a sequence of runs <<byte, count>>, count >= 1, no two         *)
(* neighbouring runs of the same byte.  The encoding is canonical, so two  *)
(* run sequences are equal exactly when the byte strings are.              *)
(*                                                                         *)
(* HMAC-SHA256 is modelled as an ideal MAC: the tag of (key, message) is   *)
(* the pair itself, after HMAC's own key normalisation (a key of at most   *)
(* 64 bytes is padded with zero bytes, a longer key is hashed first).      *)
(***************************************************************************)
EXTENDS Integers, Sequences, FiniteSets, TLC

(***************************************************************************)
(* Run-length encoded byte strings (BytesMut, &[u8]).                      *)
(***************************************************************************)
Run(b, n) == IF n <= 0 THEN <<>> ELSE << <<b, n>> >>

RECURSIVE BLen(_)
BLen(s) == IF s = <<>> THEN 0 ELSE Head(s)[2] + BLen(Tail(s))

\* bytes.extend_from_slice / mac.update: append t to s, keeping the encoding canonical
Cat(s, t) ==
    IF s = <<>> THEN t
    ELSE IF t = <<>> THEN s
    ELSE IF s[Len(s)][1] = t[1][1]
         THEN SubSeq(s, 1, Len(s) - 1)
                \o << <<t[1][1], s[Len(s)][2] + t[1][2]>> >> \o Tail(t)
         ELSE s \o t

\* the first n bytes of s
RECURSIVE Take(_, _)
Take(s, n) ==
    IF n <= 0 \/ s = <<>> THEN <<>>
    ELSE IF Head(s)[2] >= n THEN << <<Head(s)[1], n>> >>
    ELSE <<Head(s)>> \o Take(Tail(s), n - Head(s)[2])

\* s without its first n bytes
RECURSIVE Drop(_, _)
Drop(s, n) ==
    IF n <= 0 \/ s = <<>> THEN s
    ELSE IF Head(s)[2] > n THEN << <<Head(s)[1], Head(s)[2] - n>> >> \o Tail(s)
    ELSE Drop(Tail(s), n - Head(s)[2])

\* the byte at position i (1-based) of s
RECURSIVE ByteAt(_, _)
ByteAt(s, i) ==
    IF Head(s)[2] >= i THEN Head(s)[1] ELSE ByteAt(Tail(s), i - Head(s)[2])

\* a header value's bytes (HeaderValue::as_bytes) as a run-length encoded string
RECURSIVE AsBytes(_)
AsBytes(q) == IF q = <<>> THEN <<>> ELSE Cat(Run(Head(q), 1), AsBytes(Tail(q)))

(***************************************************************************)
(* HMAC-SHA256 (hmac::Hmac<Sha256>).                                       *)
(***************************************************************************)
BlockSize == 64
TagBytes == 32

\* HMAC's key normalisation: pad to the block size with zero bytes, or hash first
NormKey(key) ==
    IF BLen(key) > BlockSize
    THEN [hashed |-> TRUE, k |-> key]
    ELSE [hashed |-> FALSE, k |-> Cat(key, Run("00", BlockSize - BLen(key)))]

\* HmacSha256::new_from_slice: HMAC takes a key of any length
MacNewFromSlice(key) == [ok |-> TRUE, mac |-> [key |-> NormKey(key), data |-> <<>>]]

\* Mac::update
MacUpdate(mac, bytes) == [mac EXCEPT !.data = Cat(@, bytes)]

\* Mac::finalize: the tag, a value that determines and is determined by (key, message)
MacFinalize(mac) == [k |-> mac.key, m |-> mac.data]

NoTag == [k |-> [hashed |-> FALSE, k |-> <<>>], m |-> <<>>]

(***************************************************************************)
(* Raw bytes and hexadecimal text of a signature.  A unit is one byte      *)
(* ("byte", value v), the TagBytes bytes of a tag ("mac"), one character   *)
(* ("ch", character c) or the 2 * TagBytes hex digits of a tag ("hex",     *)
(* c the letter case).                                                     *)
(***************************************************************************)
ByteUnit(v) == [t |-> "byte", c |-> "", v |-> v, tag |-> NoTag]
MacUnit(tag) == [t |-> "mac", c |-> "", v |-> 0, tag |-> tag]
Ch(c) == [t |-> "ch", c |-> c, v |-> 0, tag |-> NoTag]
HexOfTag(tag, case) == [t |-> "hex", c |-> case, v |-> 0, tag |-> tag]

LowerHex == <<"0", "1", "2", "3", "4", "5", "6", "7", "8", "9", "a", "b", "c", "d", "e", "f">>
UpperHex == <<"0", "1", "2", "3", "4", "5", "6", "7", "8", "9", "A", "B", "C", "D", "E", "F">>
IsHexDigit(c) == \E i \in 1..16 : LowerHex[i] = c \/ UpperHex[i] = c
HexVal(c) == (CHOOSE i \in 1..16 : LowerHex[i] = c \/ UpperHex[i] = c) - 1

\* the length in bytes of a header value made of units (HeaderValue::len)
RECURSIVE UnitsLen(_)
UnitsLen(u) ==
    IF u = <<>> THEN 0
    ELSE (IF Head(u).t = "hex" THEN 2 * TagBytes
          ELSE IF Head(u).t = "mac" THEN TagBytes ELSE 1) + UnitsLen(Tail(u))

\* hex::encode of raw bytes (lower case)
RECURSIVE HexEncode(_)
HexEncode(raw) ==
    IF raw = <<>> THEN <<>>
    ELSE (IF Head(raw).t = "mac" THEN <<HexOfTag(Head(raw).tag, "lower")>>
          ELSE <<Ch(LowerHex[(Head(raw).v \div 16) + 1]), Ch(LowerHex[(Head(raw).v % 16) + 1])>>)
         \o HexEncode(Tail(raw))

\* hex::decode: two digits of either case per byte; an odd length or a character
\* that is no hex digit is an error.  (The inputs hold a tag's digits only at an
\* even offset, so a tag's digits always decode to the tag's bytes.)
RECURSIVE HexDecode(_)
HexDecode(u) ==
    IF u = <<>> THEN [ok |-> TRUE, bytes |-> <<>>]
    ELSE IF Head(u).t = "hex"
    THEN LET r == HexDecode(Tail(u))
         IN  [ok |-> r.ok, bytes |-> <<MacUnit(Head(u).tag)>> \o r.bytes]
    ELSE IF Len(u) < 2 \/ Head(u).t # "ch" \/ u[2].t # "ch" THEN [ok |-> FALSE, bytes |-> <<>>]
    ELSE IF ~IsHexDigit(u[1].c) \/ ~IsHexDigit(u[2].c) THEN [ok |-> FALSE, bytes |-> <<>>]
    ELSE LET r == HexDecode(SubSeq(u, 3, Len(u)))
         IN  [ok |-> r.ok, bytes |-> <<ByteUnit(16 * HexVal(u[1].c) + HexVal(u[2].c))>> \o r.bytes]

\* Mac::verify_slice: the computed tag against the given bytes (length and content)
MacVerifySlice(mac, sig) == sig = <<MacUnit(MacFinalize(mac))>>

(***************************************************************************)
(* Timestamps (chrono).  A time is a day number (days since 1970-01-01)    *)
(* and a second of the day; the text form modelled is the twenty bytes     *)
(* YYYY-MM-DDTHH:MM:SSZ, with a blank allowed for T and z for Z.           *)
(***************************************************************************)
DecDigits == <<"0", "1", "2", "3", "4", "5", "6", "7", "8", "9">>
IsDigit(c) == \E i \in 1..10 : DecDigits[i] = c
DigitVal(c) == (CHOOSE i \in 1..10 : DecDigits[i] = c) - 1

RECURSIVE Num(_)
Num(q) == IF q = <<>> THEN 0 ELSE 10 * Num(SubSeq(q, 1, Len(q) - 1)) + DigitVal(q[Len(q)])

IsLeap(y) == (y % 4 = 0 /\ y % 100 # 0) \/ y % 400 = 0
DaysInMonth(y, m) ==
    IF m = 2 THEN (IF IsLeap(y) THEN 29 ELSE 28)
    ELSE IF m \in {4, 6, 9, 11} THEN 30 ELSE 31

\* the day number of a calendar date (proleptic Gregorian)
DaysFromCivil(y, m, d) ==
    LET yy == IF m <= 2 THEN y - 1 ELSE y
        era == yy \div 400
        yoe == yy - era * 400
        mp == IF m > 2 THEN m - 3 ELSE m + 9
        doy == (153 * mp + 2) \div 5 + d - 1
        doe == yoe * 365 + yoe \div 4 - yoe \div 100 + doy
    IN  era * 146097 + doe - 719468

BadTime == [ok |-> FALSE, days |-> 0, secs |-> 0]

\* HeaderValue::to_str, then DateTime::<Utc>::from_str
ParseTimestamp(q) ==
    IF Len(q) # 20 THEN BadTime
    ELSE IF \E i \in {1, 2, 3, 4, 6, 7, 9, 10, 12, 13, 15, 16, 18, 19} : ~IsDigit(q[i]) THEN BadTime
    ELSE IF q[5] # "-" \/ q[8] # "-" \/ q[14] # ":" \/ q[17] # ":" THEN BadTime
    ELSE IF q[11] \notin {"T", " "} \/ q[20] \notin {"Z", "z"} THEN BadTime
    ELSE LET y == Num(SubSeq(q, 1, 4))
             mo == Num(SubSeq(q, 6, 7))
             d == Num(SubSeq(q, 9, 10))
             hh == Num(SubSeq(q, 12, 13))
             mi == Num(SubSeq(q, 15, 16))
             ss == Num(SubSeq(q, 18, 19))
         IN  IF mo \notin 1..12 \/ hh > 23 \/ mi > 59 \/ ss > 59 THEN BadTime
             ELSE IF d < 1 \/ d > DaysInMonth(y, mo) THEN BadTime
             ELSE [ok |-> TRUE, days |-> DaysFromCivil(y, mo, d),
                   secs |-> hh * 3600 + mi * 60 + ss]

DaySecs == 24 * 60 * 60
MaxAge == 10 * 60

\* the age taken from the time of day alone
TooOld_time_of_day(now, ts) == now.secs - ts.secs > MaxAge

\* Utc::now() - timestamp > Duration::minutes(10)
TooOld(now, ts) ==
    LET dd == now.days - ts.days
    IN  IF dd > 1 THEN TRUE
        ELSE IF dd < -1 THEN FALSE
        ELSE dd * DaySecs + now.secs - ts.secs > MaxAge

(***************************************************************************)
(* Headers (eventsub-common/src/headers.rs).  A header map is a record     *)
(* with one field per EventSub header, each an optional value.  The        *)
(* subscription type, subscription version and message type are only ever  *)
(* compared as a whole, so their values are strings; the message id and    *)
(* the timestamp are byte sequences; the signature is a sequence of units. *)
(***************************************************************************)
SomeV(v) == [some |-> TRUE, val |-> v]
NoText == [some |-> FALSE, val |-> ""]
NoBytes == [some |-> FALSE, val |-> <<>>]

\* a conversion that takes every unknown message type for a notification
MessageTypeOf_lenient(text) ==
    CASE text = "webhook_callback_verification" -> "Verification"
      [] text = "revocation" -> "Revocation"
      [] OTHER -> "Notification"

\* impl TryFrom<&HeaderValue> for MessageType
MessageTypeOf(text) ==
    CASE text = "notification" -> "Notification"
      [] text = "webhook_callback_verification" -> "Verification"
      [] text = "revocation" -> "Revocation"
      [] OTHER -> "none"

\* HeaderValue::to_str succeeds on visible ASCII only
IsText(q) == \A i \in 1..Len(q) : q[i] \notin {"FF", "00"}

Sha256Prefix == <<Ch("s"), Ch("h"), Ch("a"), Ch("2"), Ch("5"), Ch("6"), Ch("=")>>
StartsWithSha256(sig) == Len(sig) >= 7 /\ SubSeq(sig, 1, 7) = Sha256Prefix

HeaderErr(e) ==
    [ok |-> FALSE, err |-> e, signature |-> <<>>, message_type |-> "none",
     id_bytes |-> <<>>, timestamp_bytes |-> <<>>]

\* read_eventsub_headers looking at the subscription version before the signature
read_eventsub_headers_version_first(h, now, P) ==
    IF ~(h.sub_type.some /\ h.sub_type.val = P.event_type)
    THEN HeaderErr("WrongSubscriptionType")
    ELSE IF ~h.msg_type.some THEN HeaderErr("Missing(MessageType)")
    ELSE IF MessageTypeOf(h.msg_type.val) = "none" THEN HeaderErr("BadMessageType")
    ELSE IF ~h.sub_version.some THEN HeaderErr("Missing(SubscriptionVersion)")
    ELSE IF h.sub_version.val # P.version THEN HeaderErr("VersionMismatch")
    ELSE IF ~h.signature.some THEN HeaderErr("Missing(Signature)")
    ELSE IF UnitsLen(h.signature.val) <= 7 \/ ~StartsWithSha256(h.signature.val)
    THEN HeaderErr("SignatureTooShort")
    ELSE IF ~HexDecode(SubSeq(h.signature.val, 8, Len(h.signature.val))).ok
    THEN HeaderErr("SignatureNotHex")
    ELSE IF ~h.id.some THEN HeaderErr("Missing(Id)")
    ELSE IF ~h.timestamp.some THEN HeaderErr("Missing(Timestamp)")
    ELSE IF ~IsText(h.timestamp.val) \/ ~ParseTimestamp(h.timestamp.val).ok
    THEN HeaderErr("BadTimestamp")
    ELSE IF TooOld(now, ParseTimestamp(h.timestamp.val)) THEN HeaderErr("MessageTooOld")
    ELSE [ok |-> TRUE, err |-> "",
          signature |-> HexDecode(SubSeq(h.signature.val, 8, Len(h.signature.val))).bytes,
          message_type |-> MessageTypeOf(h.msg_type.val),
          id_bytes |-> h.id.val, timestamp_bytes |-> h.timestamp.val]

\* read_eventsub_headers::<_, P>(headers), evaluated at wall-clock time now
read_eventsub_headers(h, now, P) ==
    IF ~(h.sub_type.some /\ h.sub_type.val = P.event_type)
    THEN HeaderErr("WrongSubscriptionType")
    ELSE IF ~h.msg_type.some THEN HeaderErr("Missing(MessageType)")
    ELSE IF MessageTypeOf(h.msg_type.val) = "none" THEN HeaderErr("BadMessageType")
    ELSE IF ~h.signature.some THEN HeaderErr("Missing(Signature)")
    ELSE IF UnitsLen(h.signature.val) <= 7 \/ ~StartsWithSha256(h.signature.val)
    THEN HeaderErr("SignatureTooShort")
    ELSE IF ~HexDecode(SubSeq(h.signature.val, 8, Len(h.signature.val))).ok
    THEN HeaderErr("SignatureNotHex")
    ELSE IF ~h.sub_version.some THEN HeaderErr("Missing(SubscriptionVersion)")
    ELSE IF h.sub_version.val # P.version THEN HeaderErr("VersionMismatch")
    ELSE IF ~h.id.some THEN HeaderErr("Missing(Id)")
    ELSE IF ~h.timestamp.some THEN HeaderErr("Missing(Timestamp)")
    ELSE IF ~IsText(h.timestamp.val) \/ ~ParseTimestamp(h.timestamp.val).ok
    THEN HeaderErr("BadTimestamp")
    ELSE IF TooOld(now, ParseTimestamp(h.timestamp.val)) THEN HeaderErr("MessageTooOld")
    ELSE [ok |-> TRUE, err |-> "",
          signature |-> HexDecode(SubSeq(h.signature.val, 8, Len(h.signature.val))).bytes,
          message_type |-> MessageTypeOf(h.msg_type.val),
          id_bytes |-> h.id.val, timestamp_bytes |-> h.timestamp.val]

(***************************************************************************)
(* Payload decoding (serde_json::from_slice into Verification,             *)
(* Notification<P> or Revocation).  A JSON document is modelled by its     *)
(* first byte, which stands for the set of top-level fields it carries;    *)
(* the rest of the body is content.  serde ignores fields a struct does    *)
(* not name and fails on a missing one.                                    *)
(***************************************************************************)
JsonFields(bytes) ==
    IF bytes = <<>> THEN [json |-> FALSE, fields |-> {}]
    ELSE CASE bytes[1][1] = "V" -> [json |-> TRUE, fields |-> {"challenge", "subscription"}]
           [] bytes[1][1] = "N" -> [json |-> TRUE, fields |-> {"event", "subscription"}]
           [] bytes[1][1] = "R" -> [json |-> TRUE, fields |-> {"subscription"}]
           [] bytes[1][1] = "E" -> [json |-> TRUE, fields |-> {"event?", "subscription"}]
           [] bytes[1][1] = "{" -> [json |-> TRUE, fields |-> {}]
           [] OTHER -> [json |-> FALSE, fields |-> {}]

\* the fields each payload struct requires ("event" is an event of P's shape)
RequiredFields(message_type) ==
    CASE message_type = "Verification" -> {"challenge", "subscription"}
      [] message_type = "Notification" -> {"event", "subscription"}
      [] OTHER -> {"subscription"}

NoPayload == [variant |-> "none", doc |-> <<>>]

\* a decoder that falls back to the payload types the message type did not select
DecodePayload_fallback(message_type, bytes) ==
    LET wants(t) == JsonFields(bytes).json /\ RequiredFields(t) \subseteq JsonFields(bytes).fields
    IN  IF wants(message_type)
        THEN [ok |-> TRUE, payload |-> [variant |-> message_type, doc |-> bytes]]
        ELSE IF wants("Notification")
        THEN [ok |-> TRUE, payload |-> [variant |-> "Notification", doc |-> bytes]]
        ELSE IF wants("Revocation")
        THEN [ok |-> TRUE, payload |-> [variant |-> "Revocation", doc |-> bytes]]
        ELSE [ok |-> FALSE, payload |-> NoPayload]

\* the match on headers.message_type around serde_json::from_slice(bytes)
DecodePayload(message_type, bytes) ==
    IF JsonFields(bytes).json /\ RequiredFields(message_type) \subseteq JsonFields(bytes).fields
    THEN [ok |-> TRUE, payload |-> [variant |-> message_type, doc |-> bytes]]
    ELSE [ok |-> FALSE, payload |-> NoPayload]

(***************************************************************************)
(* Results.                                                                *)
(***************************************************************************)
NoResult == [state |-> "none", err |-> "", hdr |-> "", payload |-> NoPayload]
Ok(payload) == [state |-> "ok", err |-> "", hdr |-> "", payload |-> payload]
\* T::convert_error(e), with the test and example configurations' identity conversion
Err(e) == [state |-> "err", err |-> e, hdr |-> "", payload |-> NoPayload]
\* T::convert_error(VerifyDecodeError::Headers(e))
ErrHeaders(e) == [state |-> "err", err |-> "Headers", hdr |-> e, payload |-> NoPayload]

(***************************************************************************)
(* The pipeline.                                                           *)
(***************************************************************************)
\* the body size limit of VerifyDecodeFut::poll
MaxBody == 10000000

\* const EMPTY_KEY: [u8; 64]
EMPTY_KEY == Run("00", 64)

\* the event type the extractor Data<P, T> is instantiated with
P == [event_type |-> "channel.channel_points_custom_reward_redemption.add", version |-> "1"]

\* the event type of the tests' second guarded handler
P2 == [event_type |-> "channel.channel_points_custom_reward_redemption.update", version |-> "1"]

\* the handlers of the tests' guarded route, in the order of their registration,
\* and the event type each one's extractor is instantiated with
Handlers == <<"add", "update">>
HandlerEvent(h) == IF h = "add" THEN P ELSE P2

\* init_mac feeding the timestamp before the message id
init_mac_swapped(secret, id_bytes, timestamp_bytes) ==
    IF ~secret.some
    THEN [ok |-> FALSE, err |-> "NoHmacKey", converted |-> 0, mac |-> MacNewFromSlice(<<>>).mac]
    ELSE [ok |-> TRUE, err |-> "", converted |-> 0,
          mac |-> MacUpdate(MacUpdate(MacNewFromSlice(secret.val).mac, AsBytes(timestamp_bytes)),
                            AsBytes(id_bytes))]

\* init_mac: the secret, then the message id and the timestamp bytes.  The error
\* of get_secret is the host's own (T::Error) and is returned by ? as it is; the
\* error of new_from_slice is passed through convert_error
init_mac(secret, id_bytes, timestamp_bytes) ==
    IF ~secret.some
    THEN [ok |-> FALSE, err |-> "NoHmacKey", converted |-> 0, mac |-> MacNewFromSlice(<<>>).mac]
    ELSE IF ~MacNewFromSlice(secret.val).ok
    THEN [ok |-> FALSE, err |-> "HmacInit", converted |-> 1, mac |-> MacNewFromSlice(<<>>).mac]
    ELSE [ok |-> TRUE, err |-> "", converted |-> 0,
          mac |-> MacUpdate(MacUpdate(MacNewFromSlice(secret.val).mac, AsBytes(id_bytes)),
                            AsBytes(timestamp_bytes))]

\* the size check of the DecodingResponse arm, made before a chunk is appended
TooLarge(bytes) == BLen(bytes) >= MaxBody

\* the end of the stream with the comparison's outcome ignored
end_of_stream_unverified(mac, headers, bytes, id) ==
    IF ~DecodePayload(headers.message_type, bytes).ok
    THEN [err |-> "Serde", decoded |-> 1, payload |-> NoPayload]
    ELSE IF ~IsText(id) THEN [err |-> "IdNotUtf8", decoded |-> 1, payload |-> NoPayload]
    ELSE [err |-> "", decoded |-> 1,
          payload |-> DecodePayload(headers.message_type, bytes).payload]

\* the end of the stream decoding the body before it checks the signature
end_of_stream_decode_first(mac, headers, bytes, id) ==
    IF ~DecodePayload(headers.message_type, bytes).ok
    THEN [err |-> "Serde", decoded |-> 1, payload |-> NoPayload]
    ELSE IF ~MacVerifySlice(mac, headers.signature)
    THEN [err |-> "SignatureMismatch", decoded |-> 1, payload |-> NoPayload]
    ELSE IF ~IsText(id) THEN [err |-> "IdNotUtf8", decoded |-> 1, payload |-> NoPayload]
    ELSE [err |-> "", decoded |-> 1,
          payload |-> DecodePayload(headers.message_type, bytes).payload]

\* the end of the stream with the failure of the id's to_str dropped
end_of_stream_ignores_id(mac, headers, bytes, id) ==
    IF ~MacVerifySlice(mac, headers.signature)
    THEN [err |-> "SignatureMismatch", decoded |-> 0, payload |-> NoPayload]
    ELSE IF ~DecodePayload(headers.message_type, bytes).ok
    THEN [err |-> "Serde", decoded |-> 1, payload |-> NoPayload]
    ELSE [err |-> "", decoded |-> 1,
          payload |-> DecodePayload(headers.message_type, bytes).payload]

\* the Poll::Ready(None) arm up to the match on (payload_result, id_header): the
\* signature check, then the decode and the id's to_str, errors in the code's order
end_of_stream(mac, headers, bytes, id) ==
    IF ~MacVerifySlice(mac, headers.signature)
    THEN [err |-> "SignatureMismatch", decoded |-> 0, payload |-> NoPayload]
    ELSE IF ~DecodePayload(headers.message_type, bytes).ok
    THEN [err |-> "Serde", decoded |-> 1, payload |-> NoPayload]
    ELSE IF ~IsText(id) THEN [err |-> "IdNotUtf8", decoded |-> 1, payload |-> NoPayload]
    ELSE [err |-> "", decoded |-> 1,
          payload |-> DecodePayload(headers.message_type, bytes).payload]

(***************************************************************************)
(* State.  One VerifyDecodeFut per pipeline instance; the replay store is  *)
(* shared.  A request r is a record: headers, now (the wall clock when it  *)
(* is handled), body (what the transport will deliver), transport ("ok",   *)
(* or "fails": the stream yields an error before its end), secret (what    *)
(* Config::get_secret finds), guard (the Config's check_event_id:          *)
(* "always" answers true, "never" answers false, "store" is the redis      *)
(* example's set-if-not-exists; "no_pool", "no_conn", "cmd_err" and        *)
(* "odd_reply" are the redis example where the pool is missing from the    *)
(* application data, no connection is obtained, the command fails, or the  *)
(* server's reply is neither OK nor nil), handler (the handler the request *)
(* was dispatched to) and signed (what the sender signed).                 *)
(***************************************************************************)
\* the number of pipeline instances
NumPipes == 2
Pipes == 1..NumPipes

\* the number of chunks a stream may deliver before it must deliver all the rest
MaxChunks == 2

VARIABLES
    pc,        \* "Idle", "Decoding" (DecodingResponse), "CheckingId", "Done" or "Dropped"
    req,       \* the request an instance handles
    stream,    \* DecodingResponse.payload: the body bytes not yet delivered
    mac,       \* DecodingResponse.mac
    bytes,     \* DecodingResponse.bytes
    headers,   \* DecodingResponse.headers: signature and message_type
    payload,   \* CheckingId.payload
    inner,     \* CheckingId.inner: "none", "pending", "true" or "false"
    result,    \* what the future returned
    calls,     \* how often an instance called get_secret, finalized a MAC, decoded, called check_event_id
    chunks,    \* how many chunks the stream delivered, up to MaxChunks
    store,     \* the ids claimed in the replay store
    response,  \* what the server answers to the request
    converted, \* how often an instance passed an error through Config::convert_error
    clock      \* the wall clock, in seconds after Now

vars == <<pc, req, stream, mac, bytes, headers, payload, inner, result, calls, chunks, store,
          response, converted, clock>>

NoMac == MacNewFromSlice(<<>>).mac
NoResponse == [status |-> "none", body |-> <<>>]
NoHeaders == [signature |-> <<>>, message_type |-> "none"]
NoCalls == [get_secret |-> 0, finalize |-> 0, decode |-> 0, check_event_id |-> 0]
NoRequest ==
    [headers |-> [sub_type |-> NoText, sub_version |-> NoText, msg_type |-> NoText,
                  signature |-> NoBytes, id |-> NoBytes, timestamp |-> NoBytes],
     now |-> [days |-> 0, secs |-> 0], body |-> <<>>, transport |-> "ok",
     secret |-> NoBytes, guard |-> "always", handler |-> "add",
     signed |-> [id |-> <<>>, timestamp |-> <<>>, body |-> <<>>]]

Init ==
    /\ pc = [p \in Pipes |-> "Idle"]
    /\ req = [p \in Pipes |-> NoRequest]
    /\ stream = [p \in Pipes |-> <<>>]
    /\ mac = [p \in Pipes |-> NoMac]
    /\ bytes = [p \in Pipes |-> <<>>]
    /\ headers = [p \in Pipes |-> NoHeaders]
    /\ payload = [p \in Pipes |-> NoPayload]
    /\ inner = [p \in Pipes |-> "none"]
    /\ result = [p \in Pipes |-> NoResult]
    /\ calls = [p \in Pipes |-> NoCalls]
    /\ chunks = [p \in Pipes |-> 0]
    /\ store = {}
    /\ response = [p \in Pipes |-> NoResponse]
    /\ converted = [p \in Pipes |-> 0]
    /\ clock = 0

\* from_request looking the secret up before it validates the headers
from_request_secret_first(r) ==
    LET parsed == read_eventsub_headers(r.headers, r.now, HandlerEvent(r.handler))
        m == init_mac(r.secret, r.headers.id.val, r.headers.timestamp.val)
    IN  IF ~m.ok
        THEN [pc |-> "Done", result |-> Err(m.err), mac |-> NoMac,
              headers |-> NoHeaders, stream |-> <<>>, get_secret |-> 1, converted |-> m.converted]
        ELSE IF ~parsed.ok
        THEN [pc |-> "Done", result |-> ErrHeaders(parsed.err), mac |-> NoMac,
              headers |-> NoHeaders, stream |-> <<>>, get_secret |-> 1, converted |-> 1]
        ELSE [pc |-> "Decoding", result |-> NoResult, mac |-> m.mac,
              headers |-> [signature |-> parsed.signature, message_type |-> parsed.message_type],
              stream |-> r.body, get_secret |-> 1, converted |-> 0]

\* from_request taking the payload stream before it sets the MAC up
from_request_takes_payload_first(r) ==
    LET parsed == read_eventsub_headers(r.headers, r.now, HandlerEvent(r.handler))
        m == init_mac(r.secret, parsed.id_bytes, parsed.timestamp_bytes)
    IN  IF ~parsed.ok
        THEN [pc |-> "Done", result |-> ErrHeaders(parsed.err), mac |-> NoMac,
              headers |-> NoHeaders, stream |-> <<>>, get_secret |-> 0, converted |-> 1]
        ELSE IF ~m.ok
        THEN [pc |-> "Done", result |-> Err(m.err), mac |-> NoMac,
              headers |-> NoHeaders, stream |-> r.body, get_secret |-> 1,
              converted |-> m.converted]
        ELSE [pc |-> "Decoding", result |-> NoResult, mac |-> m.mac,
              headers |-> [signature |-> parsed.signature, message_type |-> parsed.message_type],
              stream |-> r.body, get_secret |-> 1, converted |-> 0]

\* Data::from_request: what the extractor returns for request r, as the new state
\* of the instance: a ready error, or the future in DecodingResponse
from_request(r) ==
    LET parsed == read_eventsub_headers(r.headers, r.now, HandlerEvent(r.handler))
        m == init_mac(r.secret, parsed.id_bytes, parsed.timestamp_bytes)
    IN  IF ~parsed.ok
        THEN [pc |-> "Done", result |-> ErrHeaders(parsed.err), mac |-> NoMac,
              headers |-> NoHeaders, stream |-> <<>>, get_secret |-> 0, converted |-> 1]
        ELSE IF ~m.ok
        THEN [pc |-> "Done", result |-> Err(m.err), mac |-> NoMac,
              headers |-> NoHeaders, stream |-> <<>>, get_secret |-> 1, converted |-> m.converted]
        ELSE [pc |-> "Decoding", result |-> NoResult, mac |-> m.mac,
              headers |-> [signature |-> parsed.signature, message_type |-> parsed.message_type],
              stream |-> r.body, get_secret |-> 1, converted |-> 0]

\* the extractor is called with request r
FromRequest(p, r) ==
    /\ pc[p] = "Idle"
    /\ req' = [req EXCEPT ![p] = r]
    /\ pc' = [pc EXCEPT ![p] = from_request(r).pc]
    /\ result' = [result EXCEPT ![p] = from_request(r).result]
    /\ mac' = [mac EXCEPT ![p] = from_request(r).mac]
    /\ headers' = [headers EXCEPT ![p] = from_request(r).headers]
    /\ stream' = [stream EXCEPT ![p] = from_request(r).stream]
    /\ calls' = [calls EXCEPT ![p].get_secret = from_request(r).get_secret]
    /\ converted' = [converted EXCEPT ![p] = from_request(r).converted]
    /\ UNCHANGED <<bytes, payload, inner, chunks, store, response, clock>>

\* the sizes of the chunk the stream may deliver next
ChunkSizes(rest, have) ==
    {n \in {0, 1, 2, BLen(rest) - 1, BLen(rest), MaxBody - have, MaxBody - have - 1} :
        0 <= n /\ n <= BLen(rest)}

\* the DecodingResponse arm polled again after the future returned its result
PollChunk_after_ready(p, n) ==
    /\ pc[p] \in {"Decoding", "Done"}
    /\ headers[p] # NoHeaders /\ inner[p] = "none"
    /\ n \in ChunkSizes(stream[p], BLen(bytes[p]))
    /\ chunks[p] < MaxChunks \/ n = BLen(stream[p])
    /\ stream' = [stream EXCEPT ![p] = Drop(@, n)]
    /\ chunks' = [chunks EXCEPT ![p] = IF @ < MaxChunks THEN @ + 1 ELSE @]
    /\ IF TooLarge(bytes[p])
       THEN /\ pc' = [pc EXCEPT ![p] = "Done"]
            /\ result' = [result EXCEPT ![p] = Err("RequestTooLarge")]
            /\ converted' = [converted EXCEPT ![p] = @ + 1]
            /\ UNCHANGED <<bytes, mac>>
       ELSE /\ bytes' = [bytes EXCEPT ![p] = Cat(@, Take(stream[p], n))]
            /\ mac' = [mac EXCEPT ![p] = MacUpdate(@, Take(stream[p], n))]
            /\ UNCHANGED <<pc, result, converted>>
    /\ UNCHANGED <<req, headers, payload, inner, calls, store, response, clock>>

\* poll, DecodingResponse, Poll::Ready(Some(Ok(chunk))): a chunk of n bytes
PollChunk(p, n) ==
    /\ pc[p] = "Decoding"
    /\ n \in ChunkSizes(stream[p], BLen(bytes[p]))
    /\ chunks[p] < MaxChunks \/ n = BLen(stream[p])
    /\ stream' = [stream EXCEPT ![p] = Drop(@, n)]
    /\ chunks' = [chunks EXCEPT ![p] = IF @ < MaxChunks THEN @ + 1 ELSE @]
    /\ IF TooLarge(bytes[p])
       THEN /\ pc' = [pc EXCEPT ![p] = "Done"]
            /\ result' = [result EXCEPT ![p] = Err("RequestTooLarge")]
            /\ converted' = [converted EXCEPT ![p] = @ + 1]
            /\ UNCHANGED <<bytes, mac>>
       ELSE /\ bytes' = [bytes EXCEPT ![p] = Cat(@, Take(stream[p], n))]
            /\ mac' = [mac EXCEPT ![p] = MacUpdate(@, Take(stream[p], n))]
            /\ UNCHANGED <<pc, result, converted>>
    /\ UNCHANGED <<req, headers, payload, inner, calls, store, response, clock>>

\* a poll that finds no chunk ready and hashes the buffer again when it returns
PollPending_rehash(p) ==
    /\ \/ pc[p] = "Decoding"
       \/ pc[p] = "CheckingId" /\ inner[p] = "pending"
    /\ mac' = [mac EXCEPT ![p] = IF pc[p] = "Decoding" THEN MacUpdate(@, bytes[p]) ELSE @]
    /\ UNCHANGED <<pc, req, stream, bytes, headers, payload, inner, result, calls, chunks, store,
                   response, converted, clock>>

\* poll returning Poll::Pending: the stream has no chunk ready, or the guard has
\* not answered; the future keeps its state and is polled again when woken
PollPending(p) ==
    /\ \/ pc[p] = "Decoding"
       \/ pc[p] = "CheckingId" /\ inner[p] = "pending"
    /\ UNCHANGED vars

\* a stream error answered after the MAC of what was read has been finalized
PollStreamError_finalizes(p) ==
    /\ pc[p] = "Decoding"
    /\ req[p].transport = "fails"
    /\ pc' = [pc EXCEPT ![p] = "Done"]
    /\ result' = [result EXCEPT ![p] = Err("PayloadError")]
    /\ mac' = [mac EXCEPT ![p] = MacNewFromSlice(EMPTY_KEY).mac]
    /\ calls' = [calls EXCEPT ![p].finalize = @ + 1]
    /\ converted' = [converted EXCEPT ![p] = @ + 1]
    /\ UNCHANGED <<req, stream, bytes, headers, payload, inner, chunks, store, response, clock>>

\* poll, DecodingResponse, Poll::Ready(Some(Err(e)))
PollStreamError(p) ==
    /\ pc[p] = "Decoding"
    /\ req[p].transport = "fails"
    /\ pc' = [pc EXCEPT ![p] = "Done"]
    /\ result' = [result EXCEPT ![p] = Err("PayloadError")]
    /\ converted' = [converted EXCEPT ![p] = @ + 1]
    /\ UNCHANGED <<req, stream, mac, bytes, headers, payload, inner, calls, chunks, store, response,
                   clock>>

\* Config::check_event_id: the future it returns
check_event_id(guard, id) ==
    CASE guard = "always" -> "true"
      [] guard = "never" -> "false"
      [] guard = "no_pool" -> "false"
      [] OTHER -> "pending"

\* an end-of-stream arm that runs again while the guard's answer is awaited
PollEnd_again(p) ==
    /\ \/ pc[p] = "Decoding"
       \/ pc[p] = "CheckingId" /\ inner[p] = "pending"
    /\ stream[p] = <<>>
    /\ req[p].transport = "ok"
    /\ LET end == end_of_stream(mac[p], headers[p], bytes[p], req[p].headers.id.val)
       IN  /\ mac' = [mac EXCEPT ![p] = MacNewFromSlice(EMPTY_KEY).mac]
           /\ IF end.err # ""
              THEN /\ pc' = [pc EXCEPT ![p] = "Done"]
                   /\ result' = [result EXCEPT ![p] = Err(end.err)]
                   /\ calls' = [calls EXCEPT ![p].finalize = @ + 1,
                                             ![p].decode = @ + end.decoded]
                   /\ converted' = [converted EXCEPT ![p] = @ + 1]
                   /\ UNCHANGED <<payload, inner>>
              ELSE /\ pc' = [pc EXCEPT ![p] = "CheckingId"]
                   /\ payload' = [payload EXCEPT ![p] = end.payload]
                   /\ inner' = [inner EXCEPT ![p] =
                                  check_event_id(req[p].guard, req[p].headers.id.val)]
                   /\ calls' = [calls EXCEPT ![p].finalize = @ + 1,
                                             ![p].decode = @ + end.decoded,
                                             ![p].check_event_id = @ + 1]
                   /\ UNCHANGED <<result, converted>>
    /\ UNCHANGED <<req, stream, bytes, headers, chunks, store, response, clock>>

\* poll, DecodingResponse, Poll::Ready(None): the end of the stream
PollEnd(p) ==
    /\ pc[p] = "Decoding"
    /\ stream[p] = <<>>
    /\ req[p].transport = "ok"
    /\ LET end == end_of_stream(mac[p], headers[p], bytes[p], req[p].headers.id.val)
       IN  /\ mac' = [mac EXCEPT ![p] = MacNewFromSlice(EMPTY_KEY).mac]
           /\ IF end.err # ""
              THEN /\ pc' = [pc EXCEPT ![p] = "Done"]
                   /\ result' = [result EXCEPT ![p] = Err(end.err)]
                   /\ calls' = [calls EXCEPT ![p].finalize = @ + 1,
                                             ![p].decode = @ + end.decoded]
                   /\ converted' = [converted EXCEPT ![p] = @ + 1]
                   /\ UNCHANGED <<payload, inner>>
              ELSE /\ pc' = [pc EXCEPT ![p] = "CheckingId"]
                   /\ payload' = [payload EXCEPT ![p] = end.payload]
                   /\ inner' = [inner EXCEPT ![p] =
                                  check_event_id(req[p].guard, req[p].headers.id.val)]
                   /\ calls' = [calls EXCEPT ![p].finalize = @ + 1,
                                             ![p].decode = @ + end.decoded,
                                             ![p].check_event_id = @ + 1]
                   /\ UNCHANGED <<result, converted>>
    /\ UNCHANGED <<req, stream, bytes, headers, chunks, store, response, clock>>

\* a store command that answers without recording the claim
set_nx_forgets(claimed, id) == [claimed |-> claimed, reply |-> id \notin claimed]

\* a store command that keeps one claim for all ids
set_nx_one_key(claimed, id) == [claimed |-> claimed \cup {id}, reply |-> claimed = {}]

\* the redis example's SET key 1 NX EX: claims the id if no claim is stored
set_nx(claimed, id) == [claimed |-> claimed \cup {id}, reply |-> id \notin claimed]

\* a guard that looks the id up among the requests accepted so far and claims it
\* only by being accepted: a check and a later set instead of one atomic command
GuardStep_check_then_set(p) ==
    /\ pc[p] = "CheckingId"
    /\ inner[p] = "pending"
    /\ store' = store \cup {req[p].headers.id.val}
    /\ inner' = [inner EXCEPT ![p] =
                   IF \E q \in Pipes : /\ pc[q] = "Done" /\ result[q].state = "ok"
                                       /\ req[q].headers.id = req[p].headers.id
                   THEN "false" ELSE "true"]
    /\ UNCHANGED <<pc, req, stream, mac, bytes, headers, payload, result, calls, chunks, response,
                   converted, clock>>

\* the guard's future runs its store command
GuardStep(p) ==
    /\ pc[p] = "CheckingId"
    /\ inner[p] = "pending"
    /\ store' = set_nx(store, req[p].headers.id.val).claimed
    /\ inner' = [inner EXCEPT ![p] =
                   IF set_nx(store, req[p].headers.id.val).reply THEN "true" ELSE "false"]
    /\ UNCHANGED <<pc, req, stream, mac, bytes, headers, payload, result, calls, chunks, response,
                   converted, clock>>

\* the guard's future fails to reach the store (no connection, a command error or
\* an unexpected reply): it answers false and nothing is claimed
GuardFails(p) ==
    /\ pc[p] = "CheckingId"
    /\ inner[p] = "pending"
    /\ inner' = [inner EXCEPT ![p] = "false"]
    /\ UNCHANGED <<pc, req, stream, mac, bytes, headers, payload, result, calls, chunks, store,
                   response, converted, clock>>

\* CheckingId accepting whatever the guard answers
checking_id_ignores_answer(answer, data) == Ok(data)

\* what poll returns in CheckingId once inner is ready
checking_id(answer, data) == IF answer = "true" THEN Ok(data) ELSE Err("WontHandleId")

\* poll in CheckingId reading the body again when the guard answers false
PollCheckingId_retry(p) ==
    /\ pc[p] = "CheckingId"
    /\ inner[p] \in {"true", "false"}
    /\ pc' = [pc EXCEPT ![p] = IF inner[p] = "true" THEN "Done" ELSE "Decoding"]
    /\ result' = [result EXCEPT ![p] = IF inner[p] = "true" THEN Ok(payload[p]) ELSE @]
    /\ inner' = [inner EXCEPT ![p] = IF @ = "true" THEN @ ELSE "none"]
    /\ UNCHANGED <<req, stream, mac, bytes, headers, payload, calls, chunks, store, response,
                   converted, clock>>

\* a reading of the reply that takes everything but nil for success
reply_answer_not_nil(reply) == reply # "Nil"

\* the redis example's match on the result of query_async: true for Okay alone
reply_answer(reply) ==
    CASE reply = "Err" -> FALSE
      [] reply = "Nil" -> FALSE
      [] reply = "Okay" -> TRUE
      [] OTHER -> FALSE

\* what SET key 1 NX EX may do and reply in each environment: the command takes
\* effect and replies OK or nil; or it fails, or the reply is something else, and
\* whether the key was set is not known
ServerReplies(kind, claimed, id) ==
    CASE kind = "cmd_err" -> {[claimed |-> c, reply |-> "Err"] : c \in {claimed, claimed \cup {id}}}
      [] kind = "odd_reply" ->
            {[claimed |-> c, reply |-> v] : c \in {claimed, claimed \cup {id}}, v \in {"Int", "Data"}}
      [] OTHER -> {[claimed |-> set_nx(claimed, id).claimed,
                    reply |-> IF set_nx(claimed, id).reply THEN "Okay" ELSE "Nil"]}

\* the redis example's boxed future runs to its end: a connection from the pool,
\* the command, the match on its result
GuardStepRedis(p) ==
    /\ pc[p] = "CheckingId"
    /\ inner[p] = "pending"
    /\ IF req[p].guard = "no_conn"
       THEN /\ inner' = [inner EXCEPT ![p] = "false"]
            /\ UNCHANGED store
       ELSE \E o \in ServerReplies(req[p].guard, store, req[p].headers.id.val) :
                /\ store' = o.claimed
                /\ inner' = [inner EXCEPT ![p] = IF reply_answer(o.reply) THEN "true" ELSE "false"]
    /\ UNCHANGED <<pc, req, stream, mac, bytes, headers, payload, result, calls, chunks, response,
                   converted, clock>>

\* a CheckingId arm that asks the guard again instead of returning
PollCheckingId_repolls(p) ==
    /\ pc[p] = "CheckingId"
    /\ inner[p] \in {"true", "false"}
    /\ inner' = [inner EXCEPT ![p] = "pending"]
    /\ calls' = [calls EXCEPT ![p].check_event_id = IF @ < 2 THEN @ + 1 ELSE @]
    /\ UNCHANGED <<pc, req, stream, mac, bytes, headers, payload, result, chunks, store, response,
                   converted, clock>>

\* poll, CheckingId, inner ready
PollCheckingId(p) ==
    /\ pc[p] = "CheckingId"
    /\ inner[p] \in {"true", "false"}
    /\ pc' = [pc EXCEPT ![p] = "Done"]
    /\ result' = [result EXCEPT ![p] = checking_id(inner[p], payload[p])]
    /\ payload' = [payload EXCEPT ![p] = IF inner[p] = "true" THEN NoPayload ELSE @]
    /\ converted' = [converted EXCEPT ![p] = IF inner[p] = "true" THEN @ ELSE @ + 1]
    /\ UNCHANGED <<req, stream, mac, bytes, headers, inner, calls, chunks, store, response, clock>>

\* the value of the challenge field of a verification document
Challenge(doc) == Drop(doc, 1)

\* a status that takes every error for the client's fault
status_code_all_client(err) == "400"

\* ResponseError::status_code of VerifyDecodeError: #[status(BAD_REQUEST)] on the
\* enum, #[status(INTERNAL_SERVER_ERROR)] on NoHmacKey and HmacInit
status_code(err) == IF err \in {"NoHmacKey", "HmacInit"} THEN "500" ELSE "400"

\* the response made of an extractor error (its JSON body is not modelled)
error_response(res) == [status |-> status_code(res.err), body |-> <<>>]

\* a handler answering a verification with the whole document
event_handler_echoes_document(data) ==
    IF data.variant = "Verification" THEN [status |-> "200", body |-> data.doc]
    ELSE [status |-> "panic", body |-> <<>>]

\* the tests' event_handler: the challenge as the body of a 200 response for a
\* verification, a panic for every other payload
event_handler(data) ==
    IF data.variant = "Verification" THEN [status |-> "200", body |-> Challenge(data.doc)]
    ELSE [status |-> "panic", body |-> <<>>]

\* the server answers: the handler runs on the extracted payload, or the
\* extractor's error is rendered
Respond(p) ==
    /\ pc[p] = "Done"
    /\ response[p] = NoResponse
    /\ response' = [response EXCEPT ![p] =
                      IF result[p].state = "ok" THEN event_handler(result[p].payload)
                      ELSE error_response(result[p])]
    /\ UNCHANGED <<pc, req, stream, mac, bytes, headers, payload, inner, result, calls, chunks,
                   store, converted, clock>>

(***************************************************************************)
(* The sender and the requests the specifications draw from.               *)
(***************************************************************************)
\* the sender's signature: HMAC-SHA256(secret, id || timestamp || body)
TwitchSign(secret, id, ts, body) ==
    MacFinalize(MacUpdate(MacNewFromSlice(secret).mac, Cat(Cat(AsBytes(id), AsBytes(ts)), body)))

\* the signature header: "sha256=" and the tag's hex digits
SignatureHeader(tag, case) == Sha256Prefix \o <<HexOfTag(tag, case)>>

D2(n) == <<DecDigits[(n \div 10) + 1], DecDigits[(n % 10) + 1]>>
D4(n) == D2(n \div 100) \o D2(n % 100)

\* the calendar date of a day number
CivilFromDays(days) ==
    LET z == days + 719468
        era == z \div 146097
        doe == z - era * 146097
        yoe == (doe - doe \div 1460 + doe \div 36524 - doe \div 146096) \div 365
        doy == doe - (365 * yoe + yoe \div 4 - yoe \div 100)
        mp == (5 * doy + 2) \div 153
        m == IF mp < 10 THEN mp + 3 ELSE mp - 9
    IN  [y |-> yoe + era * 400 + (IF m <= 2 THEN 1 ELSE 0), m |-> m,
         d |-> doy - (153 * mp + 2) \div 5 + 1]

\* the sender's timestamp text of a time
FormatTime(t) ==
    LET c == CivilFromDays(t.days)
    IN  D4(c.y) \o <<"-">> \o D2(c.m) \o <<"-">> \o D2(c.d) \o <<"T">>
          \o D2(t.secs \div 3600) \o <<":">> \o D2((t.secs % 3600) \div 60) \o <<":">>
          \o D2(t.secs % 60) \o <<"Z">>

\* the time age seconds before t (after t when age is negative)
TimeMinus(t, age) ==
    [days |-> t.days + ((t.secs - age) \div DaySecs), secs |-> (t.secs - age) % DaySecs]

\* the time the requests are handled at: 2021-06-01T00:05:00Z
Now == [days |-> DaysFromCivil(2021, 6, 1), secs |-> 5 * 60]

\* a request the sender signed with secret for the handler's event type: message
\* id, timestamp text, body and message-type text as given
Signed(secret, id, ts, body, msg_type, guard) ==
    [headers |-> [sub_type |-> SomeV(P.event_type), sub_version |-> SomeV(P.version),
                  msg_type |-> SomeV(msg_type),
                  signature |-> SomeV(SignatureHeader(TwitchSign(secret, id, ts, body), "lower")),
                  id |-> SomeV(id), timestamp |-> SomeV(ts)],
     now |-> Now, body |-> body, transport |-> "ok",
     secret |-> SomeV(secret), guard |-> guard, handler |-> "add",
     signed |-> [id |-> id, timestamp |-> ts, body |-> body]]

Secrets == {AsBytes(<<"s", "3", "c">>), <<>>, Run("5", BlockSize), Run("k", BlockSize + 1)}
Secret1 == AsBytes(<<"s", "3", "c">>)
Secret2 == AsBytes(<<"s", "3", "d">>)
Id1 == <<"i", "d", "1">>
Id2 == <<"i", "d", "2">>
MsgTypes == {"webhook_callback_verification", "notification", "revocation"}
Guards == {"always", "never", "store"}

\* a document of n bytes whose first byte is b
Doc(b, n) == Cat(Run(b, 1), Run("a", n - 1))
SmallBodies == {Doc("V", 3), Doc("N", 3), Doc("R", 1), Doc("E", 2), Doc("{", 2), Doc("x", 2), <<>>}
BigBodies == {Doc("V", MaxBody - 1), Doc("V", MaxBody), Doc("V", MaxBody + 1)}

\* a byte sequence with the byte at position i replaced by b
SetAt(q, i, b) == [q EXCEPT ![i] = b]
\* the same for a run-length encoded string
SetByte(s, i, b) == Cat(Cat(Take(s, i - 1), Run(b, 1)), Drop(s, i))

\* correctly signed requests
ValidRequests ==
    {Signed(k, id, FormatTime(TimeMinus(Now, age)), body, mt, g) :
        k \in Secrets, id \in {Id1, Id2}, age \in {0, MaxAge}, body \in SmallBodies \cup BigBodies,
        mt \in MsgTypes, g \in Guards}

\* requests signed over (id, timestamp, body) of which one byte was changed afterwards
TamperBases ==
    {Signed(Secret1, Id1, FormatTime(TimeMinus(Now, age)), body, "webhook_callback_verification",
            "always") : age \in {0, MaxAge - 1}, body \in {Doc("V", 3), Doc("V", MaxBody)}}
TamperedRequests ==
    UNION {
        {[r EXCEPT !.headers.id.val = SetAt(@, i, b)] :
            i \in 1..Len(r.headers.id.val), b \in {"x", "FF"}}
        \cup {[r EXCEPT !.headers.timestamp.val = SetAt(@, x[1], x[2])] :
            x \in {y \in (1..Len(r.headers.timestamp.val)) \X {"0", "1", "9", " ", "z", "x"} :
                      r.headers.timestamp.val[y[1]] # y[2]}}
        \cup {[r EXCEPT !.body = SetByte(@, i, b)] :
            i \in {1, 2, BLen(r.body)}, b \in {"x", "N"}}
        : r \in TamperBases}

\* header defects, one at a time
HeaderDefects ==
    {"none", "sub_type", "msg_type", "sig_hex", "sig_short", "version", "no_id", "bad_ts", "old"}
WithHeaderDefect(r, d) ==
    CASE d = "sub_type" -> [r EXCEPT !.headers.sub_type.val = "channel.follow"]
      [] d = "msg_type" -> [r EXCEPT !.headers.msg_type.val = "bogus"]
      [] d = "sig_hex" -> [r EXCEPT !.headers.signature.val = Sha256Prefix \o <<Ch("z"), Ch("z")>>]
      [] d = "sig_short" -> [r EXCEPT !.headers.signature.val = Sha256Prefix \o <<Ch("0"), Ch("0")>>]
      [] d = "version" -> [r EXCEPT !.headers.sub_version.val = "2"]
      [] d = "no_id" -> [r EXCEPT !.headers.id = NoBytes]
      [] d = "bad_ts" -> [r EXCEPT !.headers.timestamp.val = <<"n", "o", "w">>]
      [] d = "old" -> [r EXCEPT !.now = TimeMinus(@, -(MaxAge + 1))]
      [] OTHER -> r

\* requests with any combination of a header defect, a signature made with another
\* secret, a malformed or oversized body, an id that is no text, an unavailable
\* secret, a failing transport and a guard of each kind
DefectRequests ==
    {WithHeaderDefect(
        [Signed(k, id, FormatTime(Now), body, "webhook_callback_verification", g)
            EXCEPT !.secret = sec, !.transport = tr], d) :
        d \in HeaderDefects, k \in {Secret1, Secret2}, id \in {Id1, <<"i", "FF">>},
        body \in {Doc("V", 3), Doc("x", 2), Doc("V", MaxBody + 1)}, g \in Guards,
        sec \in {SomeV(Secret1), NoBytes}, tr \in {"ok", "fails"}}

\* requests of every age around the freshness window, past and future
Ages ==
    {MaxAge + 1, MaxAge, MaxAge - 1, 1, -1, -(MaxAge - 1), -MaxAge, -(MaxAge + 1),
     DaySecs + 1, -(DaySecs + 1), 2 * DaySecs + MaxAge, -(3 * DaySecs)}
TimeRequests ==
    {[Signed(Secret1, Id1, FormatTime(TimeMinus(now, age)), Doc("V", 3),
             "webhook_callback_verification", "always") EXCEPT !.now = now] :
        age \in Ages, now \in {Now, TimeMinus(Now, -DaySecs + MaxAge)}}

\* requests whose signature header spells the tag in upper case
UpperCaseRequests ==
    {[r EXCEPT !.headers.signature.val =
          SignatureHeader(TwitchSign(Secret1, Id1, FormatTime(Now), r.body), "upper")] :
        r \in {Signed(Secret1, Id1, FormatTime(Now), Doc("N", 3), mt, "always") : mt \in MsgTypes}}

Requests ==
    ValidRequests \cup TamperedRequests \cup DefectRequests \cup TimeRequests
        \cup UpperCaseRequests

\* one request is handled, by the first instance
Start == \E r \in Requests : (\A q \in Pipes : pc[q] = "Idle") /\ FromRequest(1, r)

Next ==
    \/ Start
    \/ \E p \in Pipes : \E n \in ChunkSizes(stream[p], BLen(bytes[p])) : PollChunk(p, n)
    \/ \E p \in Pipes : PollPending(p)
    \/ \E p \in Pipes : PollStreamError(p)
    \/ \E p \in Pipes : PollEnd(p)
    \/ \E p \in Pipes : GuardStep(p)
    \/ \E p \in Pipes : PollCheckingId(p)
    \/ \E p \in Pipes : Respond(p)

Spec == Init /\ [][Next]_vars

\* deliveries and redeliveries of signed messages to a handler with the store guard
ReplayRequests ==
    {[Signed(k, id, FormatTime(Now), Doc("V", 3), "webhook_callback_verification", "store")
        EXCEPT !.secret = SomeV(Secret1)] : k \in {Secret1, Secret2}, id \in {Id1, Id2}}
    \cup {[Signed(Secret1, Id1, FormatTime(Now), Doc("V", 3),
                   "webhook_callback_verification", "store") EXCEPT !.transport = "fails"]}

\* requests are handled one after the other, each by the next instance
StartNext ==
    \E p \in Pipes, r \in ReplayRequests :
        /\ \A q \in Pipes : q < p => pc[q] = "Done"
        /\ FromRequest(p, r)

NextReplay ==
    \/ StartNext
    \/ \E p \in Pipes : \E n \in ChunkSizes(stream[p], BLen(bytes[p])) : PollChunk(p, n)
    \/ \E p \in Pipes : PollPending(p)
    \/ \E p \in Pipes : PollStreamError(p)
    \/ \E p \in Pipes : PollEnd(p)
    \/ \E p \in Pipes : GuardStep(p)
    \/ \E p \in Pipes : PollCheckingId(p)

SpecReplay == Init /\ [][NextReplay]_vars

\* requests that arrive at the same time at a handler with the store guard:
\* two signed notifications with different ids, one signed with another secret
\* and one whose transport fails
ConcurrentRequests ==
    LET sent(k, id, body) ==
            [Signed(k, id, FormatTime(Now), body, "notification", "store")
                EXCEPT !.secret = SomeV(Secret1)]
    IN  {sent(Secret1, Id1, Doc("N", 1)), sent(Secret1, Id2, Doc("N", 1)),
         sent(Secret2, Id1, Doc("N", 1)),
         [sent(Secret1, Id2, Doc("N", 1)) EXCEPT !.transport = "fails"]}

\* a request arrives at any time and is handled by any free instance
StartConcurrent == \E p \in Pipes, r \in ConcurrentRequests : FromRequest(p, r)

NextConcurrent ==
    \/ StartConcurrent
    \/ \E p \in Pipes : \E n \in ChunkSizes(stream[p], BLen(bytes[p])) : PollChunk(p, n)
    \/ \E p \in Pipes : PollPending(p)
    \/ \E p \in Pipes : PollStreamError(p)
    \/ \E p \in Pipes : PollEnd(p)
    \/ \E p \in Pipes : GuardStep(p)
    \/ \E p \in Pipes : PollCheckingId(p)

SpecConcurrent == Init /\ [][NextConcurrent]_vars

\* deliveries of one signed notification, which may arrive any number of times,
\* over a transport that may fail
ContendRequests ==
    LET sent(id) == [Signed(Secret1, id, FormatTime(Now), Doc("N", 1), "notification", "store")
                        EXCEPT !.secret = SomeV(Secret1)]
    IN  {sent(Id1), [sent(Id1) EXCEPT !.transport = "fails"]}

\* the instances contend for the ids in a store that may fail
NextContend ==
    \/ \E p \in Pipes, r \in ContendRequests : FromRequest(p, r)
    \/ \E p \in Pipes : \E n \in ChunkSizes(stream[p], BLen(bytes[p])) : PollChunk(p, n)
    \/ \E p \in Pipes : PollPending(p)
    \/ \E p \in Pipes : PollStreamError(p)
    \/ \E p \in Pipes : PollEnd(p)
    \/ \E p \in Pipes : GuardStep(p)
    \/ \E p \in Pipes : GuardFails(p)
    \/ \E p \in Pipes : PollCheckingId(p)

SpecContend == Init /\ [][NextContend]_vars

(***************************************************************************)
(* Progress.  The body stream is finite: it delivers chunks, then its end  *)
(* or an error, and it wakes the task when it has something to deliver.    *)
(* The guard's future resolves and wakes the task too (poll hands cx to    *)
(* both), and the runtime polls a woken task.  An instance that is dropped *)
(* is not part of this specification.                                      *)
(***************************************************************************)
LiveRequests ==
    LET sent(k, body) == [Signed(k, Id1, FormatTime(Now), body, "notification", "store")
                             EXCEPT !.secret = SomeV(Secret1)]
    IN  {sent(Secret1, Doc("N", 1)),
         [sent(Secret1, Doc("N", 1)) EXCEPT !.transport = "fails"]}

\* the stream of p delivers what it has next
StreamStep(p) ==
    \/ \E n \in ChunkSizes(stream[p], BLen(bytes[p])) : PollChunk(p, n)
    \/ PollStreamError(p)
    \/ PollEnd(p)

\* the guard's future of p resolves
GuardResolves(p) == GuardStep(p) \/ GuardFails(p)

\* a request arrives at the next free instance
StartLive ==
    \E p \in Pipes, r \in LiveRequests :
        /\ \A q \in Pipes : q < p => pc[q] # "Idle"
        /\ FromRequest(p, r)

NextLive ==
    \/ StartLive
    \/ \E p \in Pipes : StreamStep(p)
    \/ \E p \in Pipes : PollPending(p)
    \/ \E p \in Pipes : GuardResolves(p)
    \/ \E p \in Pipes : PollCheckingId(p)

FairPolling ==
    \A p \in Pipes :
        /\ WF_vars(StreamStep(p))
        /\ WF_vars(GuardResolves(p))
        /\ WF_vars(PollCheckingId(p))

SpecLive == Init /\ [][NextLive]_vars /\ FairPolling

(***************************************************************************)
(* The redis example's guard in each of its environments.                  *)
(***************************************************************************)
GuardKinds == {"store", "no_pool", "no_conn", "cmd_err", "odd_reply"}

RedisRequests ==
    {Signed(Secret1, Id1, FormatTime(Now), Doc("N", 1), "notification", g) : g \in GuardKinds}

\* a request arrives at the next free instance once the guards of the earlier
\* ones have been asked
StartRedis ==
    \E p \in Pipes, r \in RedisRequests :
        /\ \A q \in Pipes : q < p => pc[q] \in {"CheckingId", "Done"}
        /\ FromRequest(p, r)

NextRedis ==
    \/ StartRedis
    \/ \E p \in Pipes : \E n \in ChunkSizes(stream[p], BLen(bytes[p])) : PollChunk(p, n)
    \/ \E p \in Pipes : PollPending(p)
    \/ \E p \in Pipes : PollEnd(p)
    \/ \E p \in Pipes : GuardStepRedis(p)
    \/ \E p \in Pipes : PollCheckingId(p)

SpecRedis == Init /\ [][NextRedis]_vars

(***************************************************************************)
(* Time.  The freshness check reads the clock when the extractor is        *)
(* called; the example guard's claim is made when the guard's command runs *)
(* and expires ClaimTTL seconds later.  Nothing in poll bounds the time a  *)
(* future spends suspended, so the clock may advance between any two       *)
(* steps.  In this specification the store holds claims with their expiry. *)
(***************************************************************************)
\* the redis example's EX argument, 15 * 60 seconds
ClaimTTL == 900

\* the clock stops here
MaxClock == 1210

\* the steps the clock advances by
TickSteps == {300, 301}

\* SET key 1 NX EX ClaimTTL at time now: a claim that has expired is no claim
set_nx_ex(claimed, id, now) ==
    LET held == \E c \in claimed : c.id = id /\ c.expires > now
    IN  [claimed |-> IF held THEN claimed
                     ELSE claimed \cup {[id |-> id, expires |-> now + ClaimTTL]},
         reply |-> ~held]

\* the guard's future runs its store command, at the present time
GuardStepTimed(p) ==
    /\ pc[p] = "CheckingId"
    /\ inner[p] = "pending"
    /\ store' = set_nx_ex(store, req[p].headers.id.val, clock).claimed
    /\ inner' = [inner EXCEPT ![p] =
                   IF set_nx_ex(store, req[p].headers.id.val, clock).reply THEN "true"
                   ELSE "false"]
    /\ UNCHANGED <<pc, req, stream, mac, bytes, headers, payload, result, calls, chunks, response,
                   converted, clock>>

\* time passes
Tick(d) ==
    /\ clock + d <= MaxClock
    /\ clock' = clock + d
    /\ UNCHANGED <<pc, req, stream, mac, bytes, headers, payload, inner, result, calls, chunks,
                   store, response, converted>>

\* the one message, signed and stamped at time 0, as it is delivered at time t
Delivery(t) ==
    [Signed(Secret1, Id1, FormatTime(Now), Doc("N", 1), "notification", "store")
        EXCEPT !.now = TimeMinus(Now, -t)]

\* the message is delivered, or delivered again, to the next free instance
Deliver ==
    \E p \in Pipes :
        /\ \A q \in Pipes : q < p => pc[q] # "Idle"
        /\ FromRequest(p, Delivery(clock))

NextTime ==
    \/ Deliver
    \/ \E d \in TickSteps : Tick(d)
    \/ \E p \in Pipes : \E n \in ChunkSizes(stream[p], BLen(bytes[p])) : PollChunk(p, n)
    \/ \E p \in Pipes : PollPending(p)
    \/ \E p \in Pipes : PollEnd(p)
    \/ \E p \in Pipes : GuardStepTimed(p)
    \/ \E p \in Pipes : PollCheckingId(p)

SpecTime == Init /\ [][NextTime]_vars

\* a drop that records the request's id as claimed
Cancel_claims_id(p) ==
    /\ pc[p] \in {"Decoding", "CheckingId"}
    /\ pc' = [pc EXCEPT ![p] = "Dropped"]
    /\ stream' = [stream EXCEPT ![p] = <<>>]
    /\ mac' = [mac EXCEPT ![p] = NoMac]
    /\ bytes' = [bytes EXCEPT ![p] = <<>>]
    /\ headers' = [headers EXCEPT ![p] = NoHeaders]
    /\ payload' = [payload EXCEPT ![p] = NoPayload]
    /\ inner' = [inner EXCEPT ![p] = "none"]
    /\ store' = store \cup {req[p].headers.id.val}
    /\ UNCHANGED <<req, result, calls, chunks, response, converted, clock>>

\* the caller abandons the request: the future is dropped where it is suspended,
\* and with it the payload stream, the buffer, the MAC and the guard's future
Cancel(p) ==
    /\ pc[p] \in {"Decoding", "CheckingId"}
    /\ pc' = [pc EXCEPT ![p] = "Dropped"]
    /\ stream' = [stream EXCEPT ![p] = <<>>]
    /\ mac' = [mac EXCEPT ![p] = NoMac]
    /\ bytes' = [bytes EXCEPT ![p] = <<>>]
    /\ headers' = [headers EXCEPT ![p] = NoHeaders]
    /\ payload' = [payload EXCEPT ![p] = NoPayload]
    /\ inner' = [inner EXCEPT ![p] = "none"]
    /\ UNCHANGED <<req, result, calls, chunks, store, response, converted, clock>>

\* requests are handled one after the other; a request may be abandoned
StartAfter ==
    \E p \in Pipes, r \in ReplayRequests :
        /\ \A q \in Pipes : q < p => pc[q] \in {"Done", "Dropped"}
        /\ FromRequest(p, r)

NextCancel ==
    \/ StartAfter
    \/ \E p \in Pipes : \E n \in ChunkSizes(stream[p], BLen(bytes[p])) : PollChunk(p, n)
    \/ \E p \in Pipes : PollPending(p)
    \/ \E p \in Pipes : PollStreamError(p)
    \/ \E p \in Pipes : PollEnd(p)
    \/ \E p \in Pipes : GuardStep(p)
    \/ \E p \in Pipes : PollCheckingId(p)
    \/ \E p \in Pipes : Cancel(p)

SpecCancel == Init /\ [][NextCancel]_vars

\* every combination of each header being absent, invalid in each way the
\* validation distinguishes, or valid
HeaderCombos ==
    {[Signed(Secret1, Id1, FormatTime(Now), Doc("V", 3), "notification", "always")
        EXCEPT !.headers = [sub_type |-> st, msg_type |-> mt, signature |-> sig,
                            sub_version |-> ver, id |-> id, timestamp |-> ts]] :
        st \in {NoText, SomeV("channel.follow"), SomeV(P.event_type)},
        mt \in {NoText, SomeV("bogus"), SomeV("NOTIFICATION"), SomeV("notification")},
        sig \in {NoBytes, SomeV(Sha256Prefix),
                 SomeV(<<Ch("s"), Ch("h"), Ch("a"), Ch("1"), Ch("="), Ch("0"), Ch("0"), Ch("0"), Ch("0")>>),
                 SomeV(Sha256Prefix \o <<Ch("z"), Ch("z")>>),
                 SomeV(Sha256Prefix \o <<Ch("a")>>),
                 SomeV(Sha256Prefix \o <<Ch("0"), Ch("0")>>),
                 SomeV(SignatureHeader(TwitchSign(Secret1, Id1, FormatTime(Now), Doc("V", 3)),
                                       "lower") \o <<Ch("0"), Ch("0")>>),
                 SomeV(SignatureHeader(TwitchSign(Secret1, Id1, FormatTime(Now), Doc("V", 3)),
                                       "lower"))},
        ver \in {NoText, SomeV("2"), SomeV("1")},
        id \in {NoBytes, SomeV(Id1)},
        ts \in {NoBytes, SomeV(<<"n", "o", "w">>), SomeV(<<"2", "FF">>),
                SomeV(FormatTime(TimeMinus(Now, MaxAge + 1))), SomeV(FormatTime(Now))}}

\* the extractor is called with one of the header combinations
StartHeaders == \E r \in HeaderCombos : FromRequest(1, r)

SpecHeaders == Init /\ [][StartHeaders]_vars

\* a guard that compares the subscription version alone
event_type_fn_version_only(T, h) ==
    h.sub_type.some /\ h.sub_version.some /\ h.sub_version.val = T.version

\* guards::event_type_fn::<T>: both headers present, the version and the type equal
event_type_fn(T, h) ==
    IF h.sub_type.some /\ h.sub_version.some
    THEN h.sub_version.val = T.version /\ h.sub_type.val = T.event_type
    ELSE FALSE

\* the secret of each guarded handler's configuration (BaseSecret, SecondSecret)
HandlerSecret(h) == IF h = "add" THEN Secret1 ELSE Secret2

\* the handlers whose guard accepts the request, by their place in the registration
Matching(h) == {i \in 1..Len(Handlers) : event_type_fn(HandlerEvent(Handlers[i]), h)}

\* requests to the guarded route: every subscription type and version, signed
\* with either handler's secret
RouteRequests ==
    {[Signed(k, id, FormatTime(Now), body, "webhook_callback_verification", "always")
        EXCEPT !.headers.sub_type = st, !.headers.sub_version = ver, !.secret = NoBytes] :
        k \in {Secret1, Secret2}, id \in {Id1, Id2}, body \in {Doc("V", 3), Doc("x", 2)},
        st \in {NoText, SomeV(P.event_type), SomeV(P2.event_type), SomeV("channel.follow")},
        ver \in {NoText, SomeV("1"), SomeV("2")}}

\* the router tries the handlers in the order of their registration and calls the
\* extractor of the first whose guard accepts the request, with that handler's
\* configuration; a request no guard accepts is answered 404
Route(p, r) ==
    /\ pc[p] = "Idle"
    /\ IF Matching(r.headers) = {}
       THEN /\ pc' = [pc EXCEPT ![p] = "NotFound"]
            /\ req' = [req EXCEPT ![p] = r]
            /\ response' = [response EXCEPT ![p] = [status |-> "404", body |-> <<>>]]
            /\ UNCHANGED <<stream, mac, bytes, headers, payload, inner, result, calls, chunks,
                           store, converted, clock>>
       ELSE LET i == CHOOSE i \in Matching(r.headers) : \A j \in Matching(r.headers) : i <= j
            IN  FromRequest(p, [r EXCEPT !.handler = Handlers[i],
                                         !.secret = SomeV(HandlerSecret(Handlers[i]))])

NextRoute ==
    \/ \E r \in RouteRequests : (\A q \in Pipes : pc[q] = "Idle") /\ Route(1, r)
    \/ \E p \in Pipes : \E n \in ChunkSizes(stream[p], BLen(bytes[p])) : PollChunk(p, n)
    \/ \E p \in Pipes : PollPending(p)
    \/ \E p \in Pipes : PollEnd(p)
    \/ \E p \in Pipes : PollCheckingId(p)
    \/ \E p \in Pipes : Respond(p)

SpecRoute == Init /\ [][NextRoute]_vars

\* the error kinds: VerifyDecodeError's variants other than Headers, and
\* InvalidHeaders' variants
ErrorKinds ==
    {"SignatureMismatch", "RequestTooLarge", "PayloadError", "Serde", "NoHmacKey", "HmacInit",
     "VersionMismatch", "IdNotUtf8", "WontHandleId"}
HeaderErrorKinds ==
    {"Missing(Id)", "Missing(MessageType)", "Missing(Signature)", "Missing(Timestamp)",
     "Missing(SubscriptionVersion)", "Missing(SubscriptionType)", "SignatureTooShort",
     "SignatureNotHex", "VersionMismatch", "BadTimestamp", "MessageTooOld", "BadMessageType",
     "WrongSubscriptionType"}
ErrorResults == {Err(e) : e \in ErrorKinds} \cup {ErrHeaders(e) : e \in HeaderErrorKinds}

\* the variants of the axum extractor's VerifyDecodeError, which has no guard
AxumErrorKinds == (ErrorKinds \cup {"Headers"}) \ {"IdNotUtf8", "WontHandleId"}

\* the axum extractor's impl IntoResponse for VerifyDecodeError (the body, the
\* error's text, is not modelled)
into_response(res) ==
    [status |-> CASE res.err \in {"Headers", "SignatureMismatch", "RequestTooLarge",
                                  "PayloadError", "Serde", "VersionMismatch"} -> "400"
                  [] res.err \in {"NoHmacKey", "HmacInit"} -> "500",
     body |-> <<>>]

\* the axum server renders the extractor's error
RespondAxum(p) ==
    /\ pc[p] = "Done"
    /\ response[p] = NoResponse
    /\ result[p].state = "err" /\ result[p].err \in AxumErrorKinds
    /\ response' = [response EXCEPT ![p] = into_response(result[p])]
    /\ UNCHANGED <<pc, req, stream, mac, bytes, headers, payload, inner, result, calls, chunks,
                   store, converted, clock>>

\* every instance has returned an error, of any kind
InitErrors ==
    /\ pc = [p \in Pipes |-> "Done"]
    /\ result \in [Pipes -> ErrorResults]
    /\ req = [p \in Pipes |-> NoRequest]
    /\ stream = [p \in Pipes |-> <<>>]
    /\ mac = [p \in Pipes |-> NoMac]
    /\ bytes = [p \in Pipes |-> <<>>]
    /\ headers = [p \in Pipes |-> NoHeaders]
    /\ payload = [p \in Pipes |-> NoPayload]
    /\ inner = [p \in Pipes |-> "none"]
    /\ calls = [p \in Pipes |-> NoCalls]
    /\ chunks = [p \in Pipes |-> 0]
    /\ store = {}
    /\ response = [p \in Pipes |-> NoResponse]
    /\ converted \in {c \in [Pipes -> {0, 1}] :
                        \A p \in Pipes : result[p].err # "NoHmacKey" => c[p] = 1}
    /\ clock = 0

NextErrors ==
    \/ \E p \in Pipes : Respond(p)
    \/ \E p \in Pipes : RespondAxum(p)

SpecErrors == InitErrors /\ [][NextErrors]_vars

(***************************************************************************)
(* The axum extractor (axum-eventsub/src/extractors/eventsub.rs): one      *)
(* async fn that validates the headers, sets the MAC up, collects the      *)
(* whole body, compares the tag and decodes.  It has no guard.             *)
(***************************************************************************)
\* the axum crate's init_mac: get_secret's None is NoHmacKey
axum_init_mac(secret, id_bytes, timestamp_bytes) ==
    IF ~secret.some THEN [ok |-> FALSE, err |-> "NoHmacKey", mac |-> MacNewFromSlice(<<>>).mac]
    ELSE IF ~MacNewFromSlice(secret.val).ok
    THEN [ok |-> FALSE, err |-> "HmacInit", mac |-> MacNewFromSlice(<<>>).mac]
    ELSE [ok |-> TRUE, err |-> "",
          mac |-> MacUpdate(MacUpdate(MacNewFromSlice(secret.val).mac, AsBytes(id_bytes)),
                            AsBytes(timestamp_bytes))]

\* Data::from_request of the axum crate: what the async fn returns for request
\* r, and what it called on the way
axum_from_request(r) ==
    LET parsed == read_eventsub_headers(r.headers, r.now, HandlerEvent(r.handler))
        m == axum_init_mac(r.secret, parsed.id_bytes, parsed.timestamp_bytes)
    IN  IF ~parsed.ok
        THEN [result |-> ErrHeaders(parsed.err), converted |-> 1, calls |-> NoCalls]
        ELSE IF ~m.ok
        THEN [result |-> Err(m.err), converted |-> 1, calls |-> [NoCalls EXCEPT !.get_secret = 1]]
        ELSE IF r.transport = "fails"
        THEN [result |-> Err("PayloadError"), converted |-> 1, calls |-> [NoCalls EXCEPT !.get_secret = 1]]
        ELSE IF <<MacUnit(MacFinalize(MacUpdate(m.mac, r.body)))>> # parsed.signature
        THEN [result |-> Err("SignatureMismatch"), converted |-> 1,
              calls |-> [NoCalls EXCEPT !.get_secret = 1, !.finalize = 1]]
        ELSE IF ~DecodePayload(parsed.message_type, r.body).ok
        THEN [result |-> Err("Serde"), converted |-> 1,
              calls |-> [NoCalls EXCEPT !.get_secret = 1, !.finalize = 1, !.decode = 1]]
        ELSE [result |-> Ok(DecodePayload(parsed.message_type, r.body).payload), converted |-> 0,
              calls |-> [NoCalls EXCEPT !.get_secret = 1, !.finalize = 1, !.decode = 1]]

\* the axum extractor is called with request r and runs to its end
AxumFromRequest(p, r) ==
    /\ pc[p] = "Idle"
    /\ req' = [req EXCEPT ![p] = r]
    /\ pc' = [pc EXCEPT ![p] = "Done"]
    /\ result' = [result EXCEPT ![p] = axum_from_request(r).result]
    /\ calls' = [calls EXCEPT ![p] = axum_from_request(r).calls]
    /\ converted' = [converted EXCEPT ![p] = axum_from_request(r).converted]
    /\ UNCHANGED <<stream, mac, bytes, headers, payload, inner, chunks, store, response, clock>>

\* the requests the axum extractor is given: bodies below the actix extractor's
\* limit (the axum crate sets no limit of its own)
AxumRequests == {r \in Requests : BLen(r.body) < MaxBody}

NextAxum ==
    \/ \E r \in AxumRequests : (\A q \in Pipes : pc[q] = "Idle") /\ AxumFromRequest(1, r)
    \/ \E p \in Pipes : RespondAxum(p)

SpecAxum == Init /\ [][NextAxum]_vars

(***************************************************************************)
(* Both integration layers on one request: instance 1 is the actix         *)
(* extractor's future, instance 2 the axum extractor's, given the request  *)
(* instance 1 was given.                                                   *)
(***************************************************************************)
\* the requests given to both: every request whose configuration's guard
\* always answers true
BothRequests == {r \in Requests : r.guard = "always"}

StartActix == \E r \in BothRequests : (\A q \in Pipes : pc[q] = "Idle") /\ FromRequest(1, r)

StartAxum == pc[1] # "Idle" /\ AxumFromRequest(2, req[1])

NextBoth ==
    \/ StartActix
    \/ StartAxum
    \/ \E p \in Pipes : \E n \in ChunkSizes(stream[p], BLen(bytes[p])) : PollChunk(p, n)
    \/ \E p \in Pipes : PollPending(p)
    \/ \E p \in Pipes : PollStreamError(p)
    \/ \E p \in Pipes : PollEnd(p)
    \/ \E p \in Pipes : PollCheckingId(p)

SpecBoth == Init /\ [][NextBoth]_vars

(***************************************************************************)
(* What a request is, seen from the sender's side.  These definitions      *)
(* state the claims' conditions on the request itself; none of them uses   *)
(* the pipeline's state.                                                   *)
(***************************************************************************)
\* the signature header is "sha256=" and the hex digits, in either case, of
\* HMAC-SHA256(secret, id || timestamp || body) over what is delivered
CorrectlySigned(r) ==
    /\ r.secret.some /\ r.headers.signature.some
    /\ r.headers.id.some /\ r.headers.timestamp.some
    /\ \E case \in {"lower", "upper"} :
          r.headers.signature.val =
              SignatureHeader(TwitchSign(r.secret.val, r.headers.id.val,
                                         r.headers.timestamp.val, r.body), case)

\* how many seconds the timestamp t lies before now, cut off at three days either way
AgeSecs(now, t) ==
    IF now.days - t.days > 2 THEN 3 * DaySecs
    ELSE IF now.days - t.days < -2 THEN -(3 * DaySecs)
    ELSE (now.days - t.days) * DaySecs + now.secs - t.secs

\* the headers other than the signature are the handler's event type and version, a
\* known message type, a textual id and a timestamp within ten minutes of now
OtherHeadersValid(r) ==
    /\ r.headers.sub_type = SomeV(P.event_type)
    /\ r.headers.sub_version = SomeV(P.version)
    /\ r.headers.msg_type.some /\ r.headers.msg_type.val \in MsgTypes
    /\ r.headers.id.some /\ IsText(r.headers.id.val)
    /\ r.headers.timestamp.some /\ ParseTimestamp(r.headers.timestamp.val).ok
    /\ AgeSecs(r.now, ParseTimestamp(r.headers.timestamp.val)) \in (-MaxAge)..MaxAge

\* the body is a document of the shape of the message type's payload
WellFormedBody(r) ==
    /\ r.headers.msg_type.some
    /\ DecodePayload(MessageTypeOf(r.headers.msg_type.val), r.body).ok

\* the guard answers true to instance p: it always does, or it is the store guard
\* and no other instance has presented the same id
GuardAnswersTrue(p) ==
    \/ req[p].guard = "always"
    \/ /\ req[p].guard = "store"
       /\ \A q \in Pipes \ {p} :
             calls[q].check_event_id = 0 \/ req[q].headers.id.val # req[p].headers.id.val

\* the body stream of instance p was not cut short: no transport error, and the
\* body is shorter than the size limit or the size limit did not end the stream
StreamReadToEnd(p) ==
    /\ req[p].transport = "ok"
    /\ BLen(req[p].body) < MaxBody \/ result[p].err # "RequestTooLarge"

\* the payload of request r
PayloadOf(r) == [variant |-> MessageTypeOf(r.headers.msg_type.val), doc |-> r.body]

OneByteApart(a, b) ==
    /\ Len(a) = Len(b)
    /\ Cardinality({i \in 1..Len(a) : a[i] # b[i]}) = 1

\* in how many positions two run-length encoded strings of the same length differ
RECURSIVE Differences(_, _)
Differences(s, t) ==
    IF s = <<>> \/ t = <<>> THEN 0
    ELSE LET n == IF Head(s)[2] < Head(t)[2] THEN Head(s)[2] ELSE Head(t)[2]
         IN  (IF Head(s)[1] # Head(t)[1] THEN n ELSE 0) + Differences(Drop(s, n), Drop(t, n))

\* the sender signed (id, timestamp, body) with the handler's secret, and then one
\* byte of the id, of the timestamp or of the body was changed
ChangedAfterSigning(r) ==
    /\ r.secret.some /\ r.headers.signature.some
    /\ r.headers.id.some /\ r.headers.timestamp.some
    /\ r.headers.signature.val =
          SignatureHeader(TwitchSign(r.secret.val, r.signed.id, r.signed.timestamp,
                                     r.signed.body), "lower")
    /\ \/ /\ OneByteApart(r.signed.id, r.headers.id.val)
          /\ r.signed.timestamp = r.headers.timestamp.val /\ r.signed.body = r.body
       \/ /\ OneByteApart(r.signed.timestamp, r.headers.timestamp.val)
          /\ r.signed.id = r.headers.id.val /\ r.signed.body = r.body
       \/ /\ BLen(r.signed.body) = BLen(r.body) /\ Differences(r.signed.body, r.body) = 1
          /\ r.signed.id = r.headers.id.val /\ r.signed.timestamp = r.headers.timestamp.val

\* C2 as stated: a request of which one byte of the id, of the timestamp or of the
\* body was changed after signing is rejected with SignatureMismatch
C2_Original ==
    \A p \in Pipes :
        (pc[p] = "Done" /\ ChangedAfterSigning(req[p]) /\ req[p].transport = "ok")
        => result[p] = Err("SignatureMismatch")

\* C2, amended: a request of which one byte of the id, of the timestamp or of
\* the body was changed after signing is never accepted.  It is rejected with
\* SignatureMismatch whenever its body stream is read to the end; before that,
\* only header validation of a changed timestamp (BadTimestamp, MessageTooOld) or
\* the size limit (RequestTooLarge) rejects it.
C2_ChangedRequestRejected ==
    \A p \in Pipes :
        (pc[p] = "Done" /\ ChangedAfterSigning(req[p]) /\ req[p].transport = "ok")
        => /\ result[p].state = "err"
           /\ \/ result[p] = Err("SignatureMismatch") /\ stream[p] = <<>>
              \/ /\ result[p] \in {ErrHeaders("BadTimestamp"), ErrHeaders("MessageTooOld")}
                 /\ req[p].signed.timestamp # req[p].headers.timestamp.val
              \/ result[p] = Err("RequestTooLarge") /\ calls[p].finalize = 0
           /\ calls[p].finalize = 1 => result[p] = Err("SignatureMismatch")
           /\ calls[p].check_event_id = 0

\* a request whose timestamp was changed after signing, and still reads as a
\* timestamp, was rejected at the signature check
C2_Witness ==
    \E p \in Pipes :
        /\ pc[p] = "Done" /\ ChangedAfterSigning(req[p])
        /\ result[p] = Err("SignatureMismatch")
        /\ req[p].signed.timestamp # req[p].headers.timestamp.val
        /\ ParseTimestamp(req[p].headers.timestamp.val).ok

(***************************************************************************)
(* C3.  With the guard that answers true the first time an id is presented *)
(* and false afterwards, of two structurally identical, correctly signed   *)
(* requests handled one after the other the first is accepted and the      *)
(* second is rejected with WontHandleId.                                   *)
(***************************************************************************)
SameDelivery(r1, r2) == r1.headers = r2.headers /\ r1.body = r2.body

\* instance p is the first to present its id to the guard
FirstWithId(p) ==
    \A o \in Pipes :
        o < p => calls[o].check_event_id = 0 \/ req[o].headers.id.val # req[p].headers.id.val

C3_SecondDeliveryRejected ==
    \A p, q \in Pipes :
        (/\ p < q /\ pc[p] = "Done" /\ pc[q] = "Done"
         /\ SameDelivery(req[p], req[q])
         /\ req[p].guard = "store" /\ req[q].guard = "store"
         /\ CorrectlySigned(req[p]) /\ CorrectlySigned(req[q])
         /\ OtherHeadersValid(req[p]) /\ OtherHeadersValid(req[q])
         /\ WellFormedBody(req[p])
         /\ StreamReadToEnd(p) /\ StreamReadToEnd(q)
         /\ FirstWithId(p))
        => /\ result[p] = Ok(PayloadOf(req[p]))
           /\ result[q] = Err("WontHandleId")

\* the same signed request was handled twice: accepted, then refused
C3_Witness ==
    \E p, q \in Pipes :
        /\ p < q /\ pc[p] = "Done" /\ pc[q] = "Done"
        /\ SameDelivery(req[p], req[q]) /\ CorrectlySigned(req[p])
        /\ result[p].state = "ok" /\ result[q] = Err("WontHandleId")
        /\ req[p].headers.id.val \in store

(***************************************************************************)
(* C4.  The checks of one request run in the order header validation,      *)
(* body streaming, signature check, payload decode, replay check; the      *)
(* error returned is that of the earliest check that fails, and no later   *)
(* check is executed.                                                      *)
(***************************************************************************)
\* the headers have the form header validation asks for, the age apart
HeadersWellFormed(r) ==
    /\ r.headers.sub_type = SomeV(P.event_type)
    /\ r.headers.msg_type.some /\ r.headers.msg_type.val \in MsgTypes
    /\ r.headers.signature.some
    /\ UnitsLen(r.headers.signature.val) > 7 /\ StartsWithSha256(r.headers.signature.val)
    /\ HexDecode(SubSeq(r.headers.signature.val, 8, Len(r.headers.signature.val))).ok
    /\ r.headers.sub_version = SomeV(P.version)
    /\ r.headers.id.some
    /\ r.headers.timestamp.some /\ IsText(r.headers.timestamp.val)
    /\ ParseTimestamp(r.headers.timestamp.val).ok

\* the age of request r's timestamp when it is handled, in seconds
Age(r) == AgeSecs(r.now, ParseTimestamp(r.headers.timestamp.val))

\* header validation has nothing to reject
HeadersAcceptable(r) == HeadersWellFormed(r) /\ Age(r) <= MaxAge

C5_BufferWithinLimit == \A p \in Pipes : BLen(bytes[p]) <= MaxBody

(***************************************************************************)
(* C6.  For every division of the body into chunks, a correctly signed     *)
(* body of exactly 10,000,000 bytes is accepted, and a body of 10,000,001  *)
(* bytes is rejected with RequestTooLarge without the signature check ever *)
(* being finalized.                                                        *)
(***************************************************************************)
C6_SizeBoundary ==
    \A p \in Pipes :
        (/\ pc[p] = "Done" /\ HeadersAcceptable(req[p]) /\ req[p].secret.some
         /\ req[p].transport = "ok")
        => /\ (/\ BLen(req[p].body) = MaxBody
               /\ CorrectlySigned(req[p]) /\ WellFormedBody(req[p])
               /\ IsText(req[p].headers.id.val) /\ GuardAnswersTrue(p))
              => result[p] = Ok(PayloadOf(req[p]))
           /\ BLen(req[p].body) = MaxBody + 1
              => result[p] = Err("RequestTooLarge") /\ calls[p].finalize = 0

(***************************************************************************)
(* C7.  Chunk boundaries are not significant: every division of the same   *)
(* body into chunks, empty chunks included, gives the result that the body *)
(* delivered as one chunk gives.                                           *)
(***************************************************************************)
\* the result of the pipeline when the stream delivers the body as one chunk
WholeBodyResult(r, answer) ==
    IF from_request(r).pc = "Done" THEN from_request(r).result
    ELSE LET end == end_of_stream(MacUpdate(from_request(r).mac, r.body),
                                  from_request(r).headers, r.body, r.headers.id.val)
         IN  IF end.err # "" THEN Err(end.err) ELSE checking_id(answer, end.payload)

C7_ChunkingInsignificant ==
    \A p \in Pipes :
        (pc[p] = "Done" /\ req[p].transport = "ok")
        => result[p] = WholeBodyResult(req[p], IF GuardAnswersTrue(p) THEN "true" ELSE "false")

(***************************************************************************)
(* C8.  Header validation rejects with MessageTooOld a request whose       *)
(* timestamp is 10 minutes and 1 second before the current time, and does  *)
(* not reject for age one whose timestamp is 9 minutes 59 seconds before   *)
(* it.                                                                     *)
(***************************************************************************)
\* the timestamp header is the sender's text of the time age seconds before now
SentAtAge(r, age) == r.headers.timestamp = SomeV(FormatTime(TimeMinus(r.now, age)))

C8_AgeBoundary ==
    \A p \in Pipes :
        (pc[p] # "Idle" /\ HeadersWellFormed(req[p]))
        => /\ SentAtAge(req[p], MaxAge + 1)
              => pc[p] = "Done" /\ result[p] = ErrHeaders("MessageTooOld")
           /\ SentAtAge(req[p], MaxAge - 1)
              => result[p].err # "Headers" /\ calls[p].get_secret = 1

\* a request stamped 10 minutes and 1 second ago, on the day before, was rejected
C8_Witness ==
    \E p \in Pipes :
        /\ HeadersWellFormed(req[p]) /\ SentAtAge(req[p], MaxAge + 1)
        /\ ParseTimestamp(req[p].headers.timestamp.val).days < req[p].now.days
        /\ result[p] = ErrHeaders("MessageTooOld")

(***************************************************************************)
(* C9.  The freshness window.                                              *)
(***************************************************************************)
\* C9 as stated: a request whose timestamp differs from the current time by more
\* than 10 minutes, in the past or in the future, is rejected by header
\* validation and never reaches HMAC initialization
C9_Original ==
    \A p \in Pipes :
        (/\ pc[p] # "Idle" /\ HeadersWellFormed(req[p])
         /\ (Age(req[p]) > MaxAge \/ Age(req[p]) < -MaxAge))
        => pc[p] = "Done" /\ result[p].err = "Headers" /\ calls[p].get_secret = 0

\* C9, amended: header validation succeeds only if the timestamp is not more than
\* 10 minutes older than the processing time: a request whose timestamp lies more
\* than 10 minutes in the past is rejected with MessageTooOld and never reaches
\* HMAC initialization; a timestamp in the future, however far, is not rejected.
C9_StaleRejected ==
    \A p \in Pipes :
        (pc[p] # "Idle" /\ HeadersWellFormed(req[p]))
        => /\ Age(req[p]) > MaxAge
              => /\ pc[p] = "Done" /\ result[p] = ErrHeaders("MessageTooOld")
                 /\ calls[p] = NoCalls /\ mac[p] = NoMac
           /\ Age(req[p]) <= MaxAge
              => result[p].err # "Headers" /\ calls[p].get_secret = 1

\* a request stamped more than a day ago was rejected before the secret was looked up
C9_Witness ==
    \E p \in Pipes :
        /\ HeadersWellFormed(req[p]) /\ Age(req[p]) > DaySecs
        /\ pc[p] = "Done" /\ result[p] = ErrHeaders("MessageTooOld")
        /\ calls[p].get_secret = 0

(***************************************************************************)
(* C10.  An instance only moves forward, Decoding, then CheckingId, then   *)
(* Done.  It enters CheckingId only from Decoding, at the end of the       *)
(* stream, after the signature matched, the payload decoded and the id was *)
(* found to be text.  A failure leads directly to Done, with the error,    *)
(* and nothing is tried again.                                             *)
(***************************************************************************)
C10_Step(p) ==
    /\ pc[p] = "Idle" => pc'[p] \in {"Idle", "Decoding", "Done"}
    /\ pc[p] = "Decoding" => pc'[p] \in {"Decoding", "CheckingId", "Done"}
    /\ pc[p] = "CheckingId" => pc'[p] \in {"CheckingId", "Done"}
    /\ pc[p] = "Done" => pc'[p] = "Done" /\ result'[p] = result[p]
    /\ (pc[p] # "CheckingId" /\ pc'[p] = "CheckingId")
          => /\ pc[p] = "Decoding"
             /\ stream[p] = <<>> /\ bytes[p] = req[p].body
             /\ CorrectlySigned(req[p]) /\ WellFormedBody(req[p])
             /\ IsText(req[p].headers.id.val)
             /\ result'[p] = NoResult
    /\ (result[p] = NoResult /\ result'[p].state = "err") => pc'[p] = "Done"
    /\ pc'[p] = "Done" <=> result'[p] # NoResult

C10_ForwardOnly == [][\A p \in Pipes : C10_Step(p)]_vars

\* an instance is in CheckingId, waiting for the guard
C10_Witness == \E p \in Pipes : pc[p] = "CheckingId" /\ inner[p] = "pending"

(***************************************************************************)
(* C11.  Done is terminal and the result is yielded once: after a step of  *)
(* an instance has returned a result, no later step reads a chunk of its   *)
(* body, updates or finalizes its MAC, invokes the guard for it or returns *)
(* a second result, whatever the other instances do.                       *)
(***************************************************************************)
C11_Step(p) ==
    /\ pc[p] = "Done"
          => /\ pc'[p] = "Done" /\ result'[p] = result[p]
             /\ stream'[p] = stream[p] /\ chunks'[p] = chunks[p]
             /\ bytes'[p] = bytes[p] /\ mac'[p] = mac[p]
             /\ calls'[p] = calls[p] /\ inner'[p] = inner[p] /\ payload'[p] = payload[p]
    /\ result[p] # NoResult => result'[p] = result[p]
    /\ store' # store => \E q \in Pipes : pc[q] = "CheckingId" /\ inner[q] = "pending"

Oversized(r) == BLen(r.body) > MaxBody

C12_GuardOnlyAfterAllChecks ==
    /\ \A p \in Pipes :
          /\ calls[p].check_event_id <= 1
          /\ calls[p].check_event_id = 1
                => /\ req[p].transport = "ok" /\ ~Oversized(req[p])
                   /\ stream[p] = <<>> /\ bytes[p] = req[p].body
                   /\ CorrectlySigned(req[p]) /\ WellFormedBody(req[p])
                   /\ IsText(req[p].headers.id.val)
    /\ \A id \in store :
          \E p \in Pipes : calls[p].check_event_id = 1 /\ req[p].headers.id.val = id

(***************************************************************************)
(* C13.  In CheckingId the guard's answer alone decides the result: true   *)
(* gives Ok with exactly the payload decoded in Decoding, false gives      *)
(* WontHandleId, and while the guard has not answered there is no result.  *)
(***************************************************************************)
C13_GuardDecides ==
    \A p \in Pipes :
        /\ pc[p] = "CheckingId"
              => /\ result[p] = NoResult
                 /\ payload[p] = DecodePayload(headers[p].message_type, bytes[p]).payload
        /\ (pc[p] = "Done" /\ calls[p].check_event_id = 1)
              => /\ inner[p] \in {"true", "false"}
                 /\ inner[p] = "true"
                       => result[p] = Ok(DecodePayload(headers[p].message_type, bytes[p]).payload)
                 /\ inner[p] = "false" => result[p] = Err("WontHandleId")

\* a guard answered false after the signature matched and the payload decoded,
\* and the request was refused
C13_Witness ==
    \E p \in Pipes :
        /\ pc[p] = "Done" /\ inner[p] = "false" /\ result[p] = Err("WontHandleId")
        /\ CorrectlySigned(req[p]) /\ WellFormedBody(req[p])

(***************************************************************************)
(* C14.  Dropping an instance while it is in Decoding, after any number of *)
(* chunks and suspensions, has no observable effect: the guard was not     *)
(* invoked, the store holds no claim made for that request, and a later    *)
(* correctly signed delivery of the same id is still accepted.             *)
(***************************************************************************)
\* instance p was dropped while it was in Decoding
DroppedInDecoding(p) == pc[p] = "Dropped" /\ calls[p].check_event_id = 0

C14_CancelLeavesNoTrace ==
    \A p \in Pipes :
        DroppedInDecoding(p)
        => /\ result[p] = NoResult
           /\ req[p].headers.id.val \in store
                 => \E q \in Pipes \ {p} :
                       /\ calls[q].check_event_id = 1
                       /\ req[q].headers.id.val = req[p].headers.id.val
           /\ \A q \in Pipes :
                 (/\ p < q /\ pc[q] = "Done"
                  /\ req[q].headers.id.val = req[p].headers.id.val
                  /\ CorrectlySigned(req[q]) /\ OtherHeadersValid(req[q])
                  /\ WellFormedBody(req[q]) /\ StreamReadToEnd(q) /\ FirstWithId(q))
                 => result[q] = Ok(PayloadOf(req[q]))

\* a correctly signed request was dropped after a chunk of its body was read, and
\* the next delivery of the same request was accepted
C14_Witness ==
    \E p, q \in Pipes :
        /\ DroppedInDecoding(p) /\ chunks[p] >= 1 /\ CorrectlySigned(req[p])
        /\ p < q /\ pc[q] = "Done" /\ SameDelivery(req[p], req[q])
        /\ result[q].state = "ok"

(***************************************************************************)
(* C15.  The order of the header checks.                                   *)
(***************************************************************************)
\* the signature header is present, longer than 7 bytes and starts with sha256=
SignatureShaped(h) ==
    h.signature.some /\ UnitsLen(h.signature.val) > 7 /\ StartsWithSha256(h.signature.val)

\* the timestamp header, present, reads as a time
TimestampReadable(h) == IsText(h.timestamp.val) /\ ParseTimestamp(h.timestamp.val).ok

\* the first failing check in the order subscription type, message type,
\* signature, subscription version, message id, timestamp, with the error the
\* statement names for it
ClaimedHeaderError(r) ==
    IF r.headers.sub_type # SomeV(P.event_type) THEN "WrongSubscriptionType"
    ELSE IF ~(r.headers.msg_type.some /\ r.headers.msg_type.val \in MsgTypes) THEN "BadMessageType"
    ELSE IF ~SignatureShaped(r.headers) THEN "SignatureTooShort"
    ELSE IF ~HexDecode(SubSeq(r.headers.signature.val, 8, Len(r.headers.signature.val))).ok
    THEN "SignatureNotHex"
    ELSE IF r.headers.sub_version # SomeV(P.version) THEN "VersionMismatch"
    ELSE IF ~r.headers.id.some THEN "Missing(Id)"
    ELSE IF ~(r.headers.timestamp.some /\ TimestampReadable(r.headers)) THEN "BadTimestamp"
    ELSE IF Age(r) > MaxAge THEN "MessageTooOld"
    ELSE ""

\* the same order, an absent header reported as Missing
FirstHeaderError(r) ==
    IF r.headers.sub_type # SomeV(P.event_type) THEN "WrongSubscriptionType"
    ELSE IF ~r.headers.msg_type.some THEN "Missing(MessageType)"
    ELSE IF r.headers.msg_type.val \notin MsgTypes THEN "BadMessageType"
    ELSE IF ~r.headers.signature.some THEN "Missing(Signature)"
    ELSE IF ~SignatureShaped(r.headers) THEN "SignatureTooShort"
    ELSE IF ~HexDecode(SubSeq(r.headers.signature.val, 8, Len(r.headers.signature.val))).ok
    THEN "SignatureNotHex"
    ELSE IF ~r.headers.sub_version.some THEN "Missing(SubscriptionVersion)"
    ELSE IF r.headers.sub_version # SomeV(P.version) THEN "VersionMismatch"
    ELSE IF ~r.headers.id.some THEN "Missing(Id)"
    ELSE IF ~r.headers.timestamp.some THEN "Missing(Timestamp)"
    ELSE IF ~TimestampReadable(r.headers) THEN "BadTimestamp"
    ELSE IF Age(r) > MaxAge THEN "MessageTooOld"
    ELSE ""

\* C15 as stated: for every combination of present, absent and invalid headers
\* the error is that of the first failing check in the order subscription type,
\* message type, signature, subscription version, message id, timestamp:
\* WrongSubscriptionType, BadMessageType, SignatureTooShort / SignatureNotHex,
\* VersionMismatch, Missing(Id), BadTimestamp / MessageTooOld
C15_Original ==
    \A p \in Pipes :
        pc[p] # "Idle"
        => IF ClaimedHeaderError(req[p]) = "" THEN result[p].err # "Headers"
           ELSE result[p] = ErrHeaders(ClaimedHeaderError(req[p]))

\* C15, amended: read_eventsub_headers applies its checks in the fixed order
\* subscription type, message type, signature, subscription version, message id,
\* timestamp, and for every combination of present, absent and invalid headers
\* returns the error of the first failing check in that order:
\* WrongSubscriptionType (absent or different), Missing(MessageType) when the
\* message type is absent and BadMessageType when it is unknown,
\* Missing(Signature) when the signature is absent, SignatureTooShort and
\* SignatureNotHex when it is malformed, Missing(SubscriptionVersion) when the
\* version is absent and VersionMismatch when it differs, Missing(Id),
\* Missing(Timestamp) when the timestamp is absent, BadTimestamp when it does
\* not parse and MessageTooOld when it is more than 10 minutes old.
C15_FirstHeaderFailure ==
    \A p \in Pipes :
        pc[p] # "Idle"
        => IF FirstHeaderError(req[p]) = "" THEN result[p].err # "Headers"
           ELSE result[p] = ErrHeaders(FirstHeaderError(req[p]))

\* a request with an unknown message type, no signature, another version, no id
\* and no timestamp was rejected for its message type
C15_Witness ==
    \E p \in Pipes :
        /\ req[p].headers.sub_type = SomeV(P.event_type)
        /\ req[p].headers.msg_type = SomeV("bogus")
        /\ ~req[p].headers.signature.some /\ req[p].headers.sub_version = SomeV("2")
        /\ ~req[p].headers.id.some /\ ~req[p].headers.timestamp.some
        /\ result[p] = ErrHeaders("BadMessageType")

(***************************************************************************)
(* C16.  A request whose message-type header is not one of the strings     *)
(* webhook_callback_verification, notification, revocation is rejected     *)
(* before any HMAC work: the secret is not looked up, no MAC is            *)
(* initialized or updated and the body stream is not read, whether or not  *)
(* its signature header is the correct one for the body.                   *)
(***************************************************************************)
UnknownMessageType(r) == ~(r.headers.msg_type.some /\ r.headers.msg_type.val \in MsgTypes)

C16_UnknownTypeRejectedEarly ==
    \A p \in Pipes :
        (pc[p] # "Idle" /\ UnknownMessageType(req[p]))
        => /\ pc[p] = "Done" /\ result[p].err = "Headers"
           /\ (req[p].headers.sub_type = SomeV(P.event_type) /\ req[p].headers.msg_type.some)
                 => result[p] = ErrHeaders("BadMessageType")
           /\ calls[p] = NoCalls /\ mac[p] = NoMac
           /\ bytes[p] = <<>> /\ chunks[p] = 0 /\ stream[p] = <<>>

\* a request with the message type "bogus" and the correct signature for its body
\* was rejected without the secret being looked up
C16_Witness ==
    \E p \in Pipes :
        /\ pc[p] = "Done" /\ req[p].headers.msg_type = SomeV("bogus")
        /\ CorrectlySigned(req[p]) /\ req[p].body # <<>>
        /\ result[p] = ErrHeaders("BadMessageType") /\ calls[p].get_secret = 0

(***************************************************************************)
(* C17.  A correctly signed verification request for the handler's event   *)
(* type and version yields a Verification payload, and the handler's       *)
(* response is a success whose body is the challenge string the request    *)
(* body carries, unchanged.                                                *)
(***************************************************************************)
\* the document a sender builds around the challenge ch
VerificationDoc(ch) == Cat(Run("V", 1), ch)

\* the challenges senders put into their verification documents
SentChallenges == {Run("a", n) : n \in {2, MaxBody - 2, MaxBody - 1, MaxBody}}

NamesEvent(r, T) ==
    r.headers.sub_type = SomeV(T.event_type) /\ r.headers.sub_version = SomeV(T.version)

\* the signature header is the one a sender holding secret k computes
SignedWith(r, k) ==
    r.headers.signature.val =
        SignatureHeader(TwitchSign(k, r.headers.id.val, r.headers.timestamp.val, r.body), "lower")

C18_DispatchedByEventType ==
    \A p \in Pipes :
        pc[p] # "Idle"
        => /\ \A T \in {P, P2} : event_type_fn(T, req[p].headers) <=> NamesEvent(req[p], T)
           /\ Cardinality(Matching(req[p].headers)) <= 1
           /\ pc[p] = "NotFound" <=> ~(NamesEvent(req[p], P) \/ NamesEvent(req[p], P2))
           /\ pc[p] = "NotFound" => calls[p] = NoCalls /\ result[p] = NoResult
           /\ NamesEvent(req[p], P)
                 => /\ req[p].handler = "add" /\ calls[p].get_secret = 1
                    /\ calls[p].finalize = 1
                          => (result[p] # Err("SignatureMismatch") <=> SignedWith(req[p], Secret1))
           /\ NamesEvent(req[p], P2)
                 => /\ req[p].handler = "update" /\ calls[p].get_secret = 1
                    /\ calls[p].finalize = 1
                          => (result[p] # Err("SignatureMismatch") <=> SignedWith(req[p], Secret2))

\* a request for the second handler's event type, signed with the second
\* handler's secret, was answered by that handler
C18_Witness ==
    \E p \in Pipes :
        /\ NamesEvent(req[p], P2) /\ SignedWith(req[p], Secret2)
        /\ req[p].handler = "update" /\ response[p].status = "200"

(***************************************************************************)
(* C19.  Every error kind maps to a fault class fixed by its kind: the     *)
(* configuration errors NoHmacKey and HmacInit are server-side faults      *)
(* (500), every other error kind is a client-side fault (400).             *)
(***************************************************************************)
ConfigurationError(res) == res.err = "NoHmacKey" \/ res.err = "HmacInit"

C19_FaultClassByKind ==
    \A p \in Pipes :
        (response[p] # NoResponse /\ result[p].state = "err")
        => /\ ConfigurationError(result[p]) => response[p].status = "500"
           /\ ~ConfigurationError(result[p]) => response[p].status = "400"

\* a missing secret was answered 500 and a stale message 400
C19_Witness ==
    \E p, q \in Pipes :
        /\ result[p] = Err("NoHmacKey") /\ response[p].status = "500"
        /\ result[q] = ErrHeaders("MessageTooOld") /\ response[q].status = "400"

(***************************************************************************)
(* C20.  In every Decoding state, however chunk arrivals and suspensions   *)
(* interleave, the buffer is the concatenation of the chunks consumed so   *)
(* far in arrival order (the body without its unread rest) and the bytes   *)
(* fed to the MAC are id_bytes, timestamp_bytes and the buffer, in that    *)
(* order: every consumed chunk is appended and hashed exactly once, and a  *)
(* resumed poll neither re-reads nor re-hashes earlier bytes.              *)
(***************************************************************************)
FedToMac(p) ==
    Cat(Cat(AsBytes(req[p].headers.id.val), AsBytes(req[p].headers.timestamp.val)), bytes[p])

C20_BufferAndMacFollowTheStream ==
    \A p \in Pipes :
        pc[p] = "Decoding"
        => /\ Cat(bytes[p], stream[p]) = req[p].body
           /\ BLen(bytes[p]) + BLen(stream[p]) = BLen(req[p].body)
           /\ mac[p].data = FedToMac(p)
           /\ mac[p].key = MacNewFromSlice(req[p].secret.val).mac.key

\* a body read in part: a chunk was consumed and another is still to come
C20_Witness ==
    \E p \in Pipes :
        /\ pc[p] = "Decoding" /\ chunks[p] >= 1
        /\ bytes[p] # <<>> /\ stream[p] # <<>>

(***************************************************************************)
(* C21.  Exactly one payload variant is attempted, the one the validated   *)
(* message type selects, and only after the signature matched: an Ok       *)
(* result for webhook_callback_verification is always Verification, for    *)
(* notification always Notification, for revocation always Revocation, and *)
(* a body that has not the shape of that one variant yields Serde even if  *)
(* it has the shape of another variant.                                    *)
(***************************************************************************)
\* the variant the message type header of request r selects
SelectedVariant(r) ==
    CASE r.headers.msg_type = SomeV("webhook_callback_verification") -> "Verification"
      [] r.headers.msg_type = SomeV("notification") -> "Notification"
      [] r.headers.msg_type = SomeV("revocation") -> "Revocation"
      [] OTHER -> "none"

\* the body is a JSON document with the fields variant v requires
Shaped(v, body) == JsonFields(body).json /\ RequiredFields(v) \subseteq JsonFields(body).fields

C21_OneVariantByMessageType ==
    \A p \in Pipes :
        /\ calls[p].decode <= 1
        /\ calls[p].decode = 1 => calls[p].finalize = 1 /\ CorrectlySigned(req[p])
        /\ result[p].state = "ok"
              => /\ calls[p].decode = 1
                 /\ result[p].payload = [variant |-> SelectedVariant(req[p]), doc |-> req[p].body]
                 /\ Shaped(SelectedVariant(req[p]), req[p].body)
        /\ (/\ pc[p] = "Done" /\ HeadersAcceptable(req[p]) /\ CorrectlySigned(req[p])
            /\ StreamReadToEnd(p) /\ ~Shaped(SelectedVariant(req[p]), req[p].body))
              => result[p] = Err("Serde")

\* a signed notification document sent as a verification was answered Serde
C21_Witness ==
    \E p \in Pipes :
        /\ pc[p] = "Done" /\ result[p] = Err("Serde") /\ CorrectlySigned(req[p])
        /\ SelectedVariant(req[p]) = "Verification"
        /\ Shaped("Notification", req[p].body) /\ ~Shaped("Verification", req[p].body)

(***************************************************************************)
(* C22.  Every ParsedHeaders value returned by successful header           *)
(* validation carries a signature of exactly 32 bytes, decoded from a      *)
(* header of the form "sha256=" followed by hex digits; a signature header *)
(* whose hex part decodes to any other length fails header validation.     *)
(***************************************************************************)
\* the hex part of request r's signature header decodes, to n bytes
HexPartDecodesTo(r, n) ==
    /\ r.headers.signature.some /\ StartsWithSha256(r.headers.signature.val)
    /\ LET hex == HexDecode(SubSeq(r.headers.signature.val, 8, Len(r.headers.signature.val)))
       IN  hex.ok /\ UnitsLen(hex.bytes) = n

C22_SignatureIs32Bytes ==
    \A p \in Pipes :
        /\ headers[p] # NoHeaders => UnitsLen(headers[p].signature) = TagBytes
        /\ (pc[p] # "Idle" /\ \E n \in (0..(2 * TagBytes)) \ {TagBytes} : HexPartDecodesTo(req[p], n))
              => result[p].err = "Headers"

(***************************************************************************)
(* C23.  The MAC accumulator that received the request's id, timestamp and *)
(* body bytes is finalized at most once per instance, only at the end of   *)
(* the stream, and is never updated or compared again after that; the      *)
(* placeholder MAC left in its place is never used to accept a request.    *)
(***************************************************************************)
\* the MAC keyed with EMPTY_KEY that std::mem::replace leaves behind
Placeholder == MacNewFromSlice(EMPTY_KEY).mac

\* the accumulator of request r once id, timestamp and the whole body were fed
Accumulated(r) ==
    MacUpdate(MacNewFromSlice(r.secret.val).mac,
              Cat(Cat(AsBytes(r.headers.id.val), AsBytes(r.headers.timestamp.val)), r.body))

C23_Step(p) ==
    /\ calls[p].finalize <= 1 /\ calls'[p].finalize <= 1
    /\ calls'[p].finalize # calls[p].finalize
          => /\ pc[p] = "Decoding" /\ stream[p] = <<>> /\ req[p].transport = "ok"
             /\ mac[p] = Accumulated(req[p])
             /\ mac'[p] = Placeholder
    /\ calls[p].finalize = 1 => mac[p] = Placeholder /\ mac'[p] = mac[p]
    /\ result'[p].state = "ok"
          => /\ calls'[p].finalize = 1
             /\ headers'[p].signature = <<MacUnit(MacFinalize(Accumulated(req'[p])))>>
             /\ headers'[p].signature # <<MacUnit(MacFinalize(Placeholder))>>

C23_FinalizedOnce == [][\A p \in Pipes : C23_Step(p)]_vars

\* a request keyed with the empty secret, whose key is the placeholder's, was
\* accepted after its accumulator had been replaced
C23_Witness ==
    \E p \in Pipes :
        /\ pc[p] = "Done" /\ result[p].state = "ok" /\ calls[p].finalize = 1
        /\ mac[p] = Placeholder /\ req[p].secret = SomeV(<<>>)
        /\ chunks[p] >= 2

\* the request with a signature of one byte had its body read and was rejected
\* at the signature check
ShortSignatureReadToEnd ==
    \E p \in Pipes :
        /\ pc[p] = "Done" /\ HexPartDecodesTo(req[p], 1)
        /\ result[p] = Err("SignatureMismatch") /\ calls[p].finalize = 1 /\ bytes[p] # <<>>

(***************************************************************************)
(* C24.  A transport-level read error on the body stream, after any number *)
(* of successfully consumed chunks, ends the pipeline with PayloadError:   *)
(* the signature is not finalized, the payload is not decoded and the      *)
(* guard is not invoked.                                                   *)
(***************************************************************************)
\* the instance did nothing with the body but read it
OnlyRead(p) ==
    /\ calls[p].finalize = 0 /\ calls[p].decode = 0 /\ calls[p].check_event_id = 0
    /\ payload[p] = NoPayload /\ inner[p] = "none"

C24_ReadErrorIsPayloadError ==
    \A p \in Pipes :
        /\ (/\ pc[p] = "Done" /\ req[p].transport = "fails"
            /\ HeadersAcceptable(req[p]) /\ req[p].secret.some)
              => /\ OnlyRead(p)
                 /\ result[p] \in {Err("PayloadError"), Err("RequestTooLarge")}
                 /\ BLen(req[p].body) < MaxBody => result[p] = Err("PayloadError")
        /\ result[p] = Err("PayloadError")
              => pc[p] = "Done" /\ req[p].transport = "fails" /\ OnlyRead(p)

\* the stream failed after two chunks had been consumed
C24_Witness ==
    \E p \in Pipes :
        /\ pc[p] = "Done" /\ result[p] = Err("PayloadError")
        /\ chunks[p] >= 2 /\ bytes[p] # <<>> /\ stream[p] # <<>>

(***************************************************************************)
(* C25.  No failure is swallowed: every error raised during header         *)
(* validation, MAC initialization, body streaming, signature check,        *)
(* decoding or replay check is returned to the caller as the request's     *)
(* result, and no step that failed is followed by an Ok result for that    *)
(* request.                                                                *)
(***************************************************************************)
\* every step of instance p succeeded
AllStepsPassed(p) ==
    /\ HeadersAcceptable(req[p]) /\ req[p].secret.some /\ req[p].transport = "ok"
    /\ CorrectlySigned(req[p]) /\ Shaped(SelectedVariant(req[p]), req[p].body)
    /\ IsText(req[p].headers.id.val) /\ inner[p] = "true"

\* the instance's result is the error get_secret itself returned
SecretLookupFailed(p) == calls[p].get_secret = 1 /\ ~req[p].secret.some

\* what C25 says of every error but the way it reaches the caller
NothingSwallowed(p) ==
    /\ pc[p] = "Done" => result[p] # NoResult
    /\ result[p].state = "ok" => AllStepsPassed(p) /\ converted[p] = 0
    /\ (pc[p] = "Done" /\ ~AllStepsPassed(p)) => result[p].state = "err"
    /\ converted[p] <= 1
    /\ converted[p] = 1 => pc[p] = "Done" /\ result[p].state = "err"

\* C25 as stated: every error is passed through convert_error exactly once
C25_Original ==
    \A p \in Pipes :
        /\ NothingSwallowed(p)
        /\ result[p].state = "err" => converted[p] = 1

\* C25, amended: every error the library raises is passed through convert_error
\* exactly once; the error the actix Config::get_secret returns is of the host's
\* error type already and is returned as it is, without convert_error
C25_NoFailureSwallowed ==
    \A p \in Pipes :
        /\ NothingSwallowed(p)
        /\ result[p].state = "err"
              => converted[p] = (IF SecretLookupFailed(p) THEN 0 ELSE 1)
        /\ SecretLookupFailed(p) => pc[p] = "Done" /\ result[p] = Err("NoHmacKey")

\* the guard turned down a request that had passed every step before it, and
\* the error was converted once
C25_Witness ==
    \E p \in Pipes :
        /\ pc[p] = "Done" /\ result[p] = Err("WontHandleId") /\ converted[p] = 1
        /\ calls[p].finalize = 1 /\ calls[p].decode = 1 /\ calls[p].check_event_id = 1

\* the secret lookup failed and its error reached the caller unconverted
SecretErrorReturnedAsIs ==
    \E p \in Pipes :
        pc[p] = "Done" /\ SecretLookupFailed(p) /\ result[p] = Err("NoHmacKey") /\ converted[p] = 0

\* the axum extractor, which has no guard and does not read the id as text:
\* every error is converted once, get_secret's None included
AxumEveryErrorConverted ==
    \A p \in Pipes :
        LET passed == /\ HeadersAcceptable(req[p]) /\ req[p].secret.some
                      /\ req[p].transport = "ok" /\ CorrectlySigned(req[p])
                      /\ Shaped(SelectedVariant(req[p]), req[p].body)
        IN  pc[p] = "Done"
            => /\ result[p].state = "ok" <=> passed
               /\ result[p].state = "err" <=> ~passed
               /\ converted[p] = (IF passed THEN 0 ELSE 1)

(***************************************************************************)
(* C26.  The secret is looked up only after header validation succeeded,   *)
(* and when get_secret fails the request fails immediately with that       *)
(* configuration error: the body stream is left untouched (not taken, no   *)
(* chunk read) and the guard is not invoked; a request with both an        *)
(* invalid header and an unavailable secret reports the header error.      *)
(***************************************************************************)
\* nothing of the body of instance p was taken or read
BodyUntouched(p) == stream[p] = <<>> /\ bytes[p] = <<>> /\ chunks[p] = 0 /\ mac[p] = NoMac

C26_SecretAfterHeaders ==
    \A p \in Pipes :
        /\ calls[p].get_secret <= 1
        /\ calls[p].get_secret = 1 => HeadersAcceptable(req[p])
        /\ (pc[p] # "Idle" /\ HeadersAcceptable(req[p])) => calls[p].get_secret = 1
        /\ (pc[p] # "Idle" /\ HeadersAcceptable(req[p]) /\ ~req[p].secret.some)
              => /\ pc[p] = "Done" /\ result[p] = Err("NoHmacKey")
                 /\ BodyUntouched(p)
                 /\ calls[p] = [NoCalls EXCEPT !.get_secret = 1]
                 /\ inner[p] = "none" /\ req[p].headers.id.val \notin store
        /\ (pc[p] # "Idle" /\ ~HeadersAcceptable(req[p]) /\ ~req[p].secret.some)
              => /\ pc[p] = "Done" /\ result[p].err = "Headers"
                 /\ BodyUntouched(p) /\ calls[p] = NoCalls

\* a request with valid headers and a body to read met an unavailable secret
C26_Witness ==
    \E p \in Pipes :
        /\ pc[p] = "Done" /\ result[p] = Err("NoHmacKey")
        /\ HeadersAcceptable(req[p]) /\ ~req[p].secret.some
        /\ req[p].body # <<>> /\ req[p].guard = "store" /\ BodyUntouched(p)

(***************************************************************************)
(* C27.  Pipeline instances are independent: for any interleaving of the   *)
(* steps of concurrent instances whose requests carry different message    *)
(* ids, each instance's final result equals the result it yields when run  *)
(* alone, and no step of one instance changes the buffer, MAC, header or   *)
(* other state of another.                                                 *)
(***************************************************************************)
\* the result of request r handled alone, with nothing in the store
AloneResult(r) ==
    IF from_request(r).pc = "Decoding" /\ r.transport = "fails" THEN Err("PayloadError")
    ELSE WholeBodyResult(r, IF r.guard = "never" THEN "false" ELSE "true")

\* no other instance handles a request with the message id of instance p's
IdOfItsOwn(p) ==
    \A q \in Pipes \ {p} : pc[q] = "Idle" \/ req[q].headers.id # req[p].headers.id

\* the state of instance p's future
FutureOf(p) ==
    <<pc[p], req[p], stream[p], mac[p], bytes[p], headers[p], payload[p], inner[p], result[p],
      calls[p], chunks[p], converted[p]>>

C27_Step ==
    /\ \A p \in Pipes : (pc'[p] = "Done" /\ IdOfItsOwn(p)') => result'[p] = AloneResult(req'[p])
    /\ \E p \in Pipes : \A q \in Pipes \ {p} : FutureOf(q)' = FutureOf(q)

C27_InstancesIndependent == [][C27_Step]_vars

\* two requests with different ids were handled by two instances and both were
\* accepted, each with its id claimed
C27_Witness ==
    \E p, q \in Pipes :
        /\ p # q /\ req[p].headers.id # req[q].headers.id
        /\ pc[p] = "Done" /\ result[p].state = "ok"
        /\ pc[q] = "Done" /\ result[q].state = "ok"
        /\ req[p].headers.id.val \in store /\ req[q].headers.id.val \in store

(***************************************************************************)
(* C28.  With a guard backed by an atomic set-if-not-exists store, for any *)
(* number of concurrent instances processing correctly signed requests     *)
(* with the same message id and any interleaving of their steps, at most   *)
(* one instance yields Ok and every other instance that completes yields   *)
(* WontHandleId.                                                           *)
(***************************************************************************)
\* the instances that handle a correctly signed request with message id i
Carrying(i) ==
    {p \in Pipes : /\ pc[p] # "Idle" /\ req[p].headers.id = SomeV(i)
                   /\ CorrectlySigned(req[p]) /\ req[p].guard = "store"}

C28_AtMostOneAccepted ==
    \A i \in {Id1, Id2} :
        /\ Cardinality({p \in Carrying(i) : result[p].state = "ok"}) <= 1
        /\ Cardinality({p \in Carrying(i) : inner[p] = "true"}) <= 1
        /\ \A p \in Carrying(i) :
              (/\ pc[p] = "Done" /\ OtherHeadersValid(req[p]) /\ WellFormedBody(req[p])
               /\ StreamReadToEnd(p))
              => result[p].state = "ok" \/ result[p] = Err("WontHandleId")
        /\ (\E p \in Carrying(i) : result[p].state = "ok") => i \in store

\* two instances handled the same id, each reading its body in several chunks;
\* one was accepted and the other refused
CompletedBoth(p, q) ==
    /\ p # q /\ req[p].headers.id = req[q].headers.id
    /\ pc[p] = "Done" /\ result[p].state = "ok"
    /\ pc[q] = "Done" /\ result[q] = Err("WontHandleId")

C28_Witness ==
    \E p, q \in Pipes :
        /\ CompletedBoth(p, q) /\ CorrectlySigned(req[p]) /\ CorrectlySigned(req[q])
        /\ chunks[p] >= 2 /\ chunks[q] >= 2

(***************************************************************************)
(* C29.  With the example guard, whose claim expires after 15 minutes, and *)
(* the 10-minute freshness check, a correctly signed message whose         *)
(* timestamp is not later than the time of its first delivery is accepted  *)
(* at most once over all time, however often and whenever it is            *)
(* redelivered: a redelivery before the claim expires yields WontHandleId  *)
(* and a redelivery after it expires is rejected as MessageTooOld.         *)
(***************************************************************************)
\* the time instance p's request was delivered at, in seconds after Now
DeliveredAt(p) == AgeSecs(req[p].now, Now)

\* the deliveries that were accepted
Accepted == {p \in Pipes : result[p].state = "ok"}

C29_AcceptedAtMostOnce ==
    /\ Cardinality(Accepted) <= 1
    /\ \A p \in Pipes :
          (pc[p] = "Done" /\ p \notin Accepted)
          => result[p] \in {Err("WontHandleId"), ErrHeaders("MessageTooOld")}
    /\ \A p \in Pipes :
          (pc[p] # "Idle" /\ \E c \in store : c.expires <= DeliveredAt(p))
          => result[p] = ErrHeaders("MessageTooOld")

\* what holds of the same deliveries: a delivery is accepted only if it arrived
\* within ten minutes of the timestamp, and a second one only if its guard ran
\* after the first claim had expired
C29_SecondOnlyAfterExpiry ==
    /\ \A p \in Accepted : DeliveredAt(p) <= MaxAge
    /\ Cardinality(Accepted) <= Cardinality(store)
    /\ \A c, d \in store : c # d => c.expires >= d.expires + ClaimTTL \/ d.expires >= c.expires + ClaimTTL

(***************************************************************************)
(* C30.  If the body stream is finite and the guard's future eventually    *)
(* resolves, then under fair scheduling every pipeline instance that is    *)
(* not cancelled eventually yields a result: it never stays suspended for  *)
(* ever, and a step that leaves it reading the body has taken a chunk from *)
(* the stream.                                                             *)
(***************************************************************************)
Suspended(p) == pc[p] \in {"Decoding", "CheckingId"}

\* a step of p that leaves it in DecodingResponse took a chunk off the stream
C30_Step(p) ==
    (pc[p] = "Decoding" /\ pc'[p] = "Decoding" /\ FutureOf(p)' # FutureOf(p))
    => /\ chunks'[p] = chunks[p] + 1 \/ BLen(stream'[p]) < BLen(stream[p])
       /\ Cat(bytes'[p], stream'[p]) = Cat(bytes[p], stream[p])

C30_EveryInstanceYields ==
    /\ \A p \in Pipes : Suspended(p) ~> (pc[p] = "Done" /\ result[p].state # "none")
    /\ [][\A p \in Pipes : C30_Step(p)]_vars

\* an instance that was suspended on the stream and on the guard has returned
C30_Witness ==
    \E p \in Pipes :
        /\ pc[p] = "Done"
        /\ chunks[p] = MaxChunks
        /\ calls[p].check_event_id = 1
        /\ result[p].state \in {"ok", "err"}

(***************************************************************************)
(* C31.  The route guard and the extractor agree: on a request for which   *)
(* event_type_fn::<T> returns true the extractor for T never fails with    *)
(* WrongSubscriptionType or VersionMismatch, and on a request whose header *)
(* validation for T gets past the subscription-type and the                *)
(* subscription-version checks event_type_fn::<T> returns true.            *)
(***************************************************************************)
\* the header errors returned at or before the subscription-version check
UpToVersionCheck ==
    {"WrongSubscriptionType", "Missing(MessageType)", "BadMessageType", "Missing(Signature)",
     "SignatureTooShort", "SignatureNotHex", "Missing(SubscriptionVersion)", "VersionMismatch"}

\* the extractor of p ran and its validation got past both checks
PastTypeAndVersion(p) ==
    /\ pc[p] \notin {"Idle", "NotFound"}
    /\ ~(result[p].err = "Headers" /\ result[p].hdr \in UpToVersionCheck)

\* what the route guard of p's handler answers on p's request
GuardOf(p) == event_type_fn(HandlerEvent(req[p].handler), req[p].headers)

C31_GuardAndExtractorAgree ==
    \A p \in Pipes :
        /\ (pc[p] \notin {"Idle", "NotFound"} /\ GuardOf(p))
           => result[p].hdr \notin {"WrongSubscriptionType", "VersionMismatch"}
        /\ PastTypeAndVersion(p) => GuardOf(p)

\* the guard accepts a request the extractor then rejects for a later header,
\* and one the extractor goes on to read
C31_Witness ==
    \E p \in Pipes :
        /\ GuardOf(p)
        /\ \/ result[p] = ErrHeaders("MessageTooOld")
           \/ pc[p] = "Decoding"

(***************************************************************************)
(* C32.  The two integration layers decide the same way: for every request *)
(* whose body is at most 10,000,000 bytes and whose message id is valid    *)
(* text, with the same secret and a guard that always answers true, the    *)
(* axum extractor and the actix extractor both accept with the same        *)
(* payload or both reject with the same error kind.                        *)
(***************************************************************************)
\* both extractors have returned on the same request
BothReturned == pc[1] = "Done" /\ pc[2] = "Done" /\ req[1] = req[2]

\* the message id, when the request has one, is text
IdIsTextIfAny(r) == r.headers.id.some => IsText(r.headers.id.val)

C32_LayersDecideAlike ==
    (/\ BothReturned
     /\ BLen(req[1].body) <= MaxBody
     /\ IdIsTextIfAny(req[1])
     /\ req[1].guard = "always")
    => result[1] = result[2]

\* what holds of the two layers: they decide alike on every body below the limit
C32_AlikeBelowLimit ==
    (/\ BothReturned
     /\ BLen(req[1].body) < MaxBody
     /\ IdIsTextIfAny(req[1])
     /\ req[1].guard = "always")
    => result[1] = result[2]

\* both layers accepted a request, with a payload
C32_BothAccepted ==
    /\ BothReturned
    /\ result[1].state = "ok" /\ result[2].state = "ok"
    /\ chunks[1] = MaxChunks

(***************************************************************************)
(* C33.  The example store-backed guard fails closed: when the connection  *)
(* pool is missing from the application data, a connection cannot be       *)
(* obtained, the set command fails, or the store returns any reply other   *)
(* than the success reply, the guard resolves to false, so the pipeline    *)
(* yields WontHandleId and the event is never delivered to the handler.    *)
(***************************************************************************)
FailingKinds == {"no_pool", "no_conn", "cmd_err", "odd_reply"}

\* the guard of p was asked and could not get the success reply: its
\* environment fails, or the id is claimed already
GuardCannotSucceed(p) ==
    /\ pc[p] = "CheckingId"
    /\ req[p].guard \in FailingKinds
       \/ (req[p].guard = "store" /\ inner[p] = "pending" /\ req[p].headers.id.val \in store)

C33_Step(p) ==
    /\ (GuardCannotSucceed(p) /\ inner'[p] # "pending") => inner'[p] = "false"
    /\ (GuardCannotSucceed(p) /\ pc'[p] = "Done") => result'[p] = Err("WontHandleId")

C33_GuardFailsClosed ==
    /\ [](\A p \in Pipes : req[p].guard \in FailingKinds
                             => (inner[p] # "true" /\ result[p].state # "ok"))
    /\ [][\A p \in Pipes : C33_Step(p)]_vars

\* each way of failing has ended in WontHandleId
C33_Witness ==
    \E p, q \in Pipes :
        /\ req[p].guard = "odd_reply" /\ result[p] = Err("WontHandleId")
        /\ req[q].guard \in {"no_pool", "no_conn", "cmd_err"} /\ result[q] = Err("WontHandleId")

====
